---- MODULE Spec2Model ----
(***************************************************************************)
(* Model of the Logflare Terraform provider: the dynamic conversion engine *)
(* (convertInterfaceToValue / convertMapToObject), the resource model      *)
(* mappers of the source and endpoint resources, and the CRUD handlers of  *)
(* both resources and of the endpoint query data source.                   *)
(*                                                                         *)
(* Four specifications:                                                    *)
(*   SpecConv  draws a Go value from a bounded set and applies the         *)
(*             conversion engine to it (decode, then encode);              *)
(*   SpecMap   draws a Record or a wire schema from a bounded set and      *)
(*             applies one of the four mapper functions to it;             *)
(*   Spec      runs the Create/Read/Update/Delete/Query handlers of one    *)
(*             resource instance against a collaborator whose responses    *)
(*             are chosen nondeterministically;                            *)
(*   SpecConc  runs the handlers of two resource instances step by step,   *)
(*             the steps of the two interleaved by the host.               *)
(***************************************************************************)
EXTENDS Integers, Sequences, FiniteSets, TLC

VARIABLES
    rawIn,      \* SpecConv: the Go value handed to the conversion engine
    convPc,     \* SpecConv: "input" | "decoded" | "encoded"
    typed,      \* SpecConv: result of convertInterfaceToValue(rawIn)
    encoded,    \* SpecConv: result of encode(typed.val)
    mapIn,      \* SpecMap: the mapper function to apply and its arguments
    mapPc,      \* SpecMap: "input" | "mapped"
    mapOut,     \* SpecMap: what the mapper function returned
    kind,       \* Spec: kind of the instance: "source" | "endpoint" | "query"
    state,      \* Spec: persisted state of the instance (owned by the host)
    req,        \* Spec: the request the host has sent to the provider, if any
    last,       \* Spec: record of the handler invocation that just returned
    client,     \* SpecConc: the client handle the provider was configured with
    inst,       \* SpecConc: per resource instance, its state and running request
    locals      \* SpecConc: the local variable `data` of each running handler

convVars == <<rawIn, convPc, typed, encoded>>
mapVars  == <<mapIn, mapPc, mapOut>>
ctlVars  == <<kind, state, req, last>>
concVars == <<client, inst, locals>>
vars     == <<rawIn, convPc, typed, encoded, mapIn, mapPc, mapOut,
             kind, state, req, last, client, inst, locals>>

-----------------------------------------------------------------------------
(* Bounds *)

\* Largest number of nodes (scalars, lists, maps) of a Go value fed to the
\* conversion engine.
MaxNodes == 4

-----------------------------------------------------------------------------
(* Typed Value Model: attr.Type and attr.Value of the plugin framework *)

StringType  == [tk |-> "String"]
Int64Type   == [tk |-> "Int64"]
Float64Type == [tk |-> "Float64"]
BoolType    == [tk |-> "Bool"]
DynamicType == [tk |-> "Dynamic"]
ListType(elemType)    == [tk |-> "List", elem |-> elemType]
ObjectType(attrTypes) == [tk |-> "Object", attrs |-> attrTypes]

StringNull       == [ty |-> StringType,  state |-> "null",  s |-> ""]
StringValue(v)   == [ty |-> StringType,  state |-> "known", s |-> v]
Int64Value(v)    == [ty |-> Int64Type,   state |-> "known", i |-> v]
Float64Value(v)  == [ty |-> Float64Type, state |-> "known", f |-> v]
BoolValue(v)     == [ty |-> BoolType,    state |-> "known", b |-> v]
DynamicValue(v)  == [ty |-> DynamicType, state |-> "known", inner |-> v]
ListUnknown(elemType) ==
    [ty |-> ListType(elemType), state |-> "unknown", elems |-> <<>>]
ObjectUnknown(attrTypes) ==
    [ty |-> ObjectType(attrTypes), state |-> "unknown", attrs |-> <<>>]

\* attr.Value.Type(ctx)
TypeOf(v) == v.ty

\* diag.Diagnostic
ErrorDiagnostic(summary, text, argNames, st, bd, er) ==
    [severity |-> "error", summary |-> summary, fmt |-> text,
     args |-> argNames, status |-> st, body |-> bd, err |-> er]
WarningDiagnostic(summary, text) ==
    [severity |-> "warning", summary |-> summary, fmt |-> text,
     args |-> {}, status |-> 0, body |-> "", err |-> ""]

\* diag.Diagnostics.HasError
HasError(diags) == \E n \in 1..Len(diags) : diags[n].severity = "error"

\* types.ListValue(elementType, elements): a known list when every element has
\* the given element type; otherwise an unknown list of that element type and
\* an "Invalid List Element Type" error.
ListValue(elemType, elements) ==
    IF \A n \in 1..Len(elements) : TypeOf(elements[n]) = elemType
    THEN [val   |-> [ty |-> ListType(elemType), state |-> "known",
                     elems |-> elements],
          diags |-> <<>>]
    ELSE [val   |-> ListUnknown(elemType),
          diags |-> <<ErrorDiagnostic("Invalid List Element Type",
                                      "invalid element", {}, 0, "", "")>>]

\* types.ObjectValue(attrTypes, attrValues): a known object when the two maps
\* have the same keys and every value has its declared type.
ObjectValue(attrTypes, attrValues) ==
    IF /\ DOMAIN attrTypes = DOMAIN attrValues
       /\ \A key \in DOMAIN attrValues : TypeOf(attrValues[key]) = attrTypes[key]
    THEN [val   |-> [ty |-> ObjectType(attrTypes), state |-> "known",
                     attrs |-> attrValues],
          diags |-> <<>>]
    ELSE [val   |-> ObjectUnknown(attrTypes),
          diags |-> <<ErrorDiagnostic("Invalid Object Attribute Type",
                                      "invalid attribute", {}, 0, "", "")>>]

-----------------------------------------------------------------------------
(* Go values handed to the conversion engine (the dynamic type of an `any`) *)

GoNil        == [k |-> "nil"]
GoString(v)  == [k |-> "string",  s |-> v]
GoFloat64(v) == [k |-> "float64", f |-> v]
GoInt(v)     == [k |-> "int",     i |-> v]
GoInt64(v)   == [k |-> "int64",   i |-> v]
GoBool(v)    == [k |-> "bool",    b |-> v]
GoSlice(v)   == [k |-> "slice",   elems |-> v]
GoMap(v)     == [k |-> "map",     m |-> v]
\* any other dynamic type (int32, json.Number, ...): only its %v text matters
GoOther(v)   == [k |-> "other",   repr |-> v]

-----------------------------------------------------------------------------
(* Dynamic Conversion Engine *)

RECURSIVE convertInterfaceToValue(_)
RECURSIVE convertMapToObject(_)
RECURSIVE convertElements(_)

\* Plausible slip: the declared element type is taken from the first element.
convertElementsFirstWins(v) ==
    IF Len(v) = 0
    THEN [elements |-> <<>>, elemType |-> StringType]
    ELSE LET init == convertElements(SubSeq(v, 1, Len(v) - 1))
             item == convertInterfaceToValue(v[Len(v)])
         IN  [elements |-> Append(init.elements, item.val),
              elemType |-> IF Len(v) = 1 THEN item.typ ELSE init.elemType]

\* The loop `for i, item := range v { elements[i], elemType = convert(item) }`:
\* the converted elements, and the type returned for the last one.
convertElements(v) ==
    IF Len(v) = 0
    THEN [elements |-> <<>>, elemType |-> StringType]
    ELSE LET init == convertElements(SubSeq(v, 1, Len(v) - 1))
             item == convertInterfaceToValue(v[Len(v)])
         IN  [elements |-> Append(init.elements, item.val),
              elemType |-> item.typ]

\* Plausible slip: a missing value is typed as a number.
convertInterfaceToValueNilAsFloat(value) ==
    CASE value.k = "nil"     ->
            [val |-> [ty |-> Float64Type, state |-> "null", f |-> 0],
             typ |-> Float64Type]
      [] value.k = "string"  -> [val |-> StringValue(value.s), typ |-> StringType]
      [] value.k = "float64" -> [val |-> Float64Value(value.f), typ |-> Float64Type]
      [] value.k = "int"     -> [val |-> Int64Value(value.i), typ |-> Int64Type]
      [] value.k = "int64"   -> [val |-> Int64Value(value.i), typ |-> Int64Type]
      [] value.k = "bool"    -> [val |-> BoolValue(value.b), typ |-> BoolType]
      [] value.k = "slice"   ->
            IF Len(value.elems) = 0
            THEN [val |-> ListValue(StringType, <<>>).val,
                  typ |-> ListType(StringType)]
            ELSE LET conv == convertElements(value.elems)
                 IN  [val |-> ListValue(conv.elemType, conv.elements).val,
                      typ |-> ListType(conv.elemType)]
      [] value.k = "map"     ->
            LET objVal == convertMapToObject(value.m).val
            IN  [val |-> objVal, typ |-> TypeOf(objVal)]
      [] OTHER               -> [val |-> StringValue(value.repr), typ |-> StringType]

\* Plausible slip: a float64 is narrowed to an Int64 value.
convertInterfaceToValueFloatAsInt(value) ==
    CASE value.k = "nil"     -> [val |-> StringNull, typ |-> StringType]
      [] value.k = "string"  -> [val |-> StringValue(value.s), typ |-> StringType]
      [] value.k = "float64" -> [val |-> Int64Value(value.f), typ |-> Int64Type]
      [] value.k = "int"     -> [val |-> Int64Value(value.i), typ |-> Int64Type]
      [] value.k = "int64"   -> [val |-> Int64Value(value.i), typ |-> Int64Type]
      [] value.k = "bool"    -> [val |-> BoolValue(value.b), typ |-> BoolType]
      [] value.k = "slice"   ->
            IF Len(value.elems) = 0
            THEN [val |-> ListValue(StringType, <<>>).val,
                  typ |-> ListType(StringType)]
            ELSE LET conv == convertElements(value.elems)
                 IN  [val |-> ListValue(conv.elemType, conv.elements).val,
                      typ |-> ListType(conv.elemType)]
      [] value.k = "map"     ->
            LET objVal == convertMapToObject(value.m).val
            IN  [val |-> objVal, typ |-> TypeOf(objVal)]
      [] OTHER               -> [val |-> StringValue(value.repr), typ |-> StringType]

\* convertInterfaceToValue returns the pair (attr.Value, attr.Type).  The
\* diagnostics of types.ListValue and of convertMapToObject are discarded.
convertInterfaceToValue(value) ==
    CASE value.k = "nil"     -> [val |-> StringNull, typ |-> StringType]
      [] value.k = "string"  -> [val |-> StringValue(value.s), typ |-> StringType]
      [] value.k = "float64" -> [val |-> Float64Value(value.f), typ |-> Float64Type]
      [] value.k = "int"     -> [val |-> Int64Value(value.i), typ |-> Int64Type]
      [] value.k = "int64"   -> [val |-> Int64Value(value.i), typ |-> Int64Type]
      [] value.k = "bool"    -> [val |-> BoolValue(value.b), typ |-> BoolType]
      [] value.k = "slice"   ->
            IF Len(value.elems) = 0
            THEN [val |-> ListValue(StringType, <<>>).val,
                  typ |-> ListType(StringType)]
            ELSE LET conv == convertElements(value.elems)
                 IN  [val |-> ListValue(conv.elemType, conv.elements).val,
                      typ |-> ListType(conv.elemType)]
      [] value.k = "map"     ->
            LET objVal == convertMapToObject(value.m).val
            IN  [val |-> objVal, typ |-> TypeOf(objVal)]
      [] OTHER               -> [val |-> StringValue(value.repr), typ |-> StringType]

\* convertMapToObject: every key is converted on its own; the order in which
\* the keys are visited does not show in the result.
convertMapToObject(m) ==
    LET conv       == [key \in DOMAIN m |-> convertInterfaceToValue(m[key])]
        attrTypes  == [key \in DOMAIN m |-> conv[key].typ]
        attrValues == [key \in DOMAIN m |-> conv[key].val]
    IN  ObjectValue(attrTypes, attrValues)

\* encode: the inverse projection of the spec (section 4.2): strips the
\* dynamic wrapper and the declared types.  An unknown value has no Raw Value.
RECURSIVE encode(_)
encode(tv) ==
    CASE tv.state = "null"    -> GoNil
      [] tv.state = "unknown" -> [k |-> "unknown"]
      [] tv.ty.tk = "String"  -> GoString(tv.s)
      [] tv.ty.tk = "Int64"   -> GoInt64(tv.i)
      [] tv.ty.tk = "Float64" -> GoFloat64(tv.f)
      [] tv.ty.tk = "Bool"    -> GoBool(tv.b)
      [] tv.ty.tk = "Dynamic" -> encode(tv.inner)
      [] tv.ty.tk = "List"    ->
            GoSlice([n \in 1..Len(tv.elems) |-> encode(tv.elems[n])])
      [] OTHER                ->
            GoMap([key \in DOMAIN tv.attrs |-> encode(tv.attrs[key])])

-----------------------------------------------------------------------------
(* Bounded input domain of the conversion engine *)

Keys == {"a", "b"}

\* Leaves: the Raw Value scalars, and the two Go dynamic types outside the
\* Raw Value domain that the type switch also handles (int, anything else).
GoScalars ==
    {GoNil, GoString("a"), GoInt64(1), GoFloat64(1), GoBool(TRUE),
     GoInt(1), GoOther("7")}

RECURSIVE GoValuesOfSize(_)
RECURSIVE GoSeqsOfSize(_)
RECURSIVE GoMapsOfSize(_, _)

\* Sequences of Go values whose node counts sum to n.
GoSeqsOfSize(n) ==
    IF n = 0 THEN {<<>>}
    ELSE UNION { { <<x>> \o rest : x \in GoValuesOfSize(j),
                                   rest \in GoSeqsOfSize(n - j) } : j \in 1..n }

\* Maps with key set ks whose values' node counts sum to n.
GoMapsOfSize(ks, n) ==
    IF ks = {} THEN (IF n = 0 THEN {<<>>} ELSE {})
    ELSE LET key == CHOOSE x \in ks : TRUE
         IN  UNION { { [x \in ks |-> IF x = key THEN v ELSE rest[x]] :
                          v \in GoValuesOfSize(j),
                          rest \in GoMapsOfSize(ks \ {key}, n - j) } : j \in 1..n }

\* Go values with exactly n nodes.
GoValuesOfSize(n) ==
    IF n = 1
    THEN GoScalars \cup {GoSlice(<<>>), GoMap(<<>>)}
    ELSE { GoSlice(es) : es \in GoSeqsOfSize(n - 1) }
         \cup UNION { { GoMap(m) : m \in GoMapsOfSize(ks, n - 1) } :
                      ks \in (SUBSET Keys) \ {{}} }

GoValues == UNION { GoValuesOfSize(n) : n \in 1..MaxNodes }

\* A Raw Value of the spec: nil, string, 64-bit integer, float, bool, list, map.
RECURSIVE IsRawValue(_)
IsRawValue(v) ==
    CASE v.k \in {"nil", "string", "int64", "float64", "bool"} -> TRUE
      [] v.k = "slice" -> \A n \in 1..Len(v.elems) : IsRawValue(v.elems[n])
      [] v.k = "map"   -> \A key \in DOMAIN v.m : IsRawValue(v.m[key])
      [] OTHER         -> FALSE

\* No list inside v contains elements of differing decoded types.
RECURSIVE Homogeneous(_)
Homogeneous(v) ==
    CASE v.k = "slice" ->
            /\ \A n \in 1..Len(v.elems) : Homogeneous(v.elems[n])
            /\ \A n1, n2 \in 1..Len(v.elems) :
                   convertInterfaceToValue(v.elems[n1]).typ
                     = convertInterfaceToValue(v.elems[n2]).typ
      [] v.k = "map"   -> \A key \in DOMAIN v.m : Homogeneous(v.m[key])
      [] OTHER         -> TRUE

-----------------------------------------------------------------------------
(* SpecConv: apply the conversion engine to one input *)

NoTyped == [val |-> StringNull, typ |-> StringType]

Decode ==
    /\ convPc = "input"
    /\ typed' = convertInterfaceToValue(rawIn)
    /\ convPc' = "decoded"
    /\ UNCHANGED <<rawIn, encoded>>

Encode ==
    /\ convPc = "decoded"
    /\ encoded' = encode(typed.val)
    /\ convPc' = "encoded"
    /\ UNCHANGED <<rawIn, typed>>

-----------------------------------------------------------------------------
(* Framework values of the Resource Record fields *)

Int32Type      == [tk |-> "Int32"]
NormalizedType == [tk |-> "Normalized"]

\* A Go int (64 bit) is the pair (hi, lo) standing for hi * 2^32 + lo, where lo
\* is the low word read as a signed 32-bit number (-2^31 <= lo < 2^31).
GoIntOf(hi, lo) == [hi |-> hi, lo |-> lo]

StringUnknown      == [ty |-> StringType, state |-> "unknown", s |-> ""]
BoolNull           == [ty |-> BoolType,  state |-> "null",    b |-> FALSE]
BoolUnknown        == [ty |-> BoolType,  state |-> "unknown", b |-> FALSE]
Int32Null          == [ty |-> Int32Type, state |-> "null",    i32 |-> 0]
Int32Unknown       == [ty |-> Int32Type, state |-> "unknown", i32 |-> 0]
Int32Value(v)      == [ty |-> Int32Type, state |-> "known",   i32 |-> v]
Int64Null          == [ty |-> Int64Type, state |-> "null",    i |-> GoIntOf(0, 0)]
Int64Unknown       == [ty |-> Int64Type, state |-> "unknown", i |-> GoIntOf(0, 0)]
NormalizedNull     == [ty |-> NormalizedType, state |-> "null",    s |-> ""]
NormalizedUnknown  == [ty |-> NormalizedType, state |-> "unknown", s |-> ""]
NormalizedValue(v) == [ty |-> NormalizedType, state |-> "known",   s |-> v]

IsNull(x)    == x.state = "null"
IsUnknown(x) == x.state = "unknown"

\* Go pointers: nil, or a pointer to a value.  A nil pointer keeps the zero
\* value of its target type in v.
Ptr(v)     == [nil |-> FALSE, v |-> v]
NilString  == [nil |-> TRUE, v |-> ""]
NilBool    == [nil |-> TRUE, v |-> FALSE]
NilInt32   == [nil |-> TRUE, v |-> 0]
NilInt     == [nil |-> TRUE, v |-> GoIntOf(0, 0)]
NilTime    == [nil |-> TRUE, v |-> [sec |-> "", frac |-> 0]]
NilMap     == [nil |-> TRUE, v |-> "map(nil)"]
NilSlice   == [nil |-> TRUE, v |-> <<>>]

\* ValueString, Value*Pointer: null gives nil, unknown gives a pointer to the
\* zero value, known gives a pointer to the value.
ValueString(x)        == x.s
ValueStringPointer(x) == IF IsNull(x) THEN NilString ELSE Ptr(x.s)
ValueBoolPointer(x)   == IF IsNull(x) THEN NilBool   ELSE Ptr(x.b)
ValueInt32Pointer(x)  == IF IsNull(x) THEN NilInt32  ELSE Ptr(x.i32)

\* types.*PointerValue: nil gives null, otherwise the known value.
StringPointerValue(p) == IF p.nil THEN StringNull ELSE StringValue(p.v)
BoolPointerValue(p)   == IF p.nil THEN BoolNull   ELSE BoolValue(p.v)
Int32PointerValue(p)  == IF p.nil THEN Int32Null  ELSE Int32Value(p.v)

\* Plausible slip: the widening forgets the value and yields zero.
int32PtrToIntPtrZero(p) == IF p.nil THEN NilInt ELSE Ptr(GoIntOf(0, 0))

\* int32PtrToIntPtr: int(*i) widens; the value is kept.
int32PtrToIntPtr(p) == IF p.nil THEN NilInt ELSE Ptr(GoIntOf(0, p.v))

\* intPtrToInt32Ptr: int32(*i) keeps the low 32 bits only.
intPtrToInt32Ptr(p) == IF p.nil THEN NilInt32 ELSE Ptr(p.v.lo)

\* time.Time.Format(time.RFC3339): whole seconds; the fraction is not printed.
FormatRFC3339(t) == t.sec

-----------------------------------------------------------------------------
(* Free-form fields: canonical JSON text <-> *map[string]any *)

\* The texts a free-form field is given in this model.
JsonTexts == {"{}", "{\"a\":1}", "{ \"a\": 1 }", "null", "[1]", "{bad"}

\* encoding/json.Unmarshal(text, &target) for target of type *map[string]any,
\* starting from a nil target: the target afterwards, and whether it failed.
\* A syntax error leaves the target alone; a value of the wrong JSON type has
\* already allocated the pointer when the type error is recorded.
JsonUnmarshalMap(text) ==
    CASE text = "{}"            -> [target |-> Ptr("map[]"),    ok |-> TRUE]
      [] text = "{\"a\":1}"     -> [target |-> Ptr("map[a:1]"), ok |-> TRUE]
      [] text = "{ \"a\": 1 }"  -> [target |-> Ptr("map[a:1]"), ok |-> TRUE]
      [] text = "null"          -> [target |-> NilMap,          ok |-> TRUE]
      [] text = "[1]"           -> [target |-> Ptr("map(nil)"), ok |-> FALSE]
      [] OTHER                  -> [target |-> NilMap,          ok |-> FALSE]

\* jsontypes.Normalized.Unmarshal(&target): a null or unknown value fails and
\* leaves the target alone; otherwise json.Unmarshal of the text.
NormalizedUnmarshal(x) ==
    IF IsNull(x) \/ IsUnknown(x)
    THEN [target |-> NilMap, ok |-> FALSE]
    ELSE JsonUnmarshalMap(x.s)

\* encoding/json.Marshal of a *map[string]any.
JsonMarshalMap(p) ==
    CASE p.nil          -> "null"
      [] p.v = "map[]"  -> "{}"
      [] p.v = "map[a:1]" -> "{\"a\":1}"
      [] OTHER          -> "null"

-----------------------------------------------------------------------------
(* Notification settings of a source *)

\* NotificationModel.AttributeTypes
NotificationAttributeTypes ==
    [key \in {"other_email_notifications", "team_user_ids_for_email",
              "team_user_ids_for_schema_updates", "team_user_ids_for_sms",
              "user_email_notifications", "user_schema_update_notifications",
              "user_text_notifications"} |->
        CASE key = "other_email_notifications" -> StringType
          [] key \in {"team_user_ids_for_email", "team_user_ids_for_schema_updates",
                      "team_user_ids_for_sms"} -> ListType(StringType)
          [] OTHER -> BoolType]

\* types.ObjectNull(NotificationModel{}.AttributeTypes())
NotificationsNull ==
    [ty |-> ObjectType(NotificationAttributeTypes), state |-> "null", attrs |-> <<>>]
NotificationsUnknown ==
    [ty |-> ObjectType(NotificationAttributeTypes), state |-> "unknown", attrs |-> <<>>]

\* The zero api.Notification: every field a nil pointer.
ApiNotificationZero ==
    [OtherEmailNotifications       |-> NilString,
     TeamUserIdsForEmail           |-> NilSlice,
     TeamUserIdsForSchemaUpdates   |-> NilSlice,
     TeamUserIdsForSms             |-> NilSlice,
     UserEmailNotifications        |-> NilBool,
     UserSchemaUpdateNotifications |-> NilBool,
     UserTextNotifications         |-> NilBool]

\* json.Unmarshal of one member of the notifications map into a *string, a
\* *bool or a *[]string field: JSON null and an absent key leave nil.
UnmarshalStringField(m, key) ==
    IF key \notin DOMAIN m \/ m[key].k = "nil" THEN [p |-> NilString, ok |-> TRUE]
    ELSE IF m[key].k = "string" THEN [p |-> Ptr(m[key].s), ok |-> TRUE]
    ELSE [p |-> NilString, ok |-> FALSE]
UnmarshalBoolField(m, key) ==
    IF key \notin DOMAIN m \/ m[key].k = "nil" THEN [p |-> NilBool, ok |-> TRUE]
    ELSE IF m[key].k = "bool" THEN [p |-> Ptr(m[key].b), ok |-> TRUE]
    ELSE [p |-> NilBool, ok |-> FALSE]
UnmarshalStringsField(m, key) ==
    IF key \notin DOMAIN m \/ m[key].k = "nil" THEN [p |-> NilSlice, ok |-> TRUE]
    ELSE IF /\ m[key].k = "slice"
            /\ \A n \in 1..Len(m[key].elems) : m[key].elems[n].k = "string"
         THEN [p  |-> Ptr([n \in 1..Len(m[key].elems) |-> m[key].elems[n].s]),
               ok |-> TRUE]
    ELSE [p |-> NilSlice, ok |-> FALSE]

\* The api.Notification decoded from its seven members.
NotificationFromMembers(other, email, schema, sms, uEmail, uSch, uText) ==
    [ok  |-> other.ok /\ email.ok /\ schema.ok /\ sms.ok
                 /\ uEmail.ok /\ uSch.ok /\ uText.ok,
     val |-> [OtherEmailNotifications       |-> other.p,
              TeamUserIdsForEmail           |-> email.p,
              TeamUserIdsForSchemaUpdates   |-> schema.p,
              TeamUserIdsForSms             |-> sms.p,
              UserEmailNotifications        |-> uEmail.p,
              UserSchemaUpdateNotifications |-> uSch.p,
              UserTextNotifications         |-> uText.p]]

\* json.Marshal(result.Notifications) followed by json.Unmarshal into an
\* api.Notification: fails when a member has the wrong JSON type.
UnmarshalNotification(m) ==
    NotificationFromMembers(
        UnmarshalStringField(m, "other_email_notifications"),
        UnmarshalStringsField(m, "team_user_ids_for_email"),
        UnmarshalStringsField(m, "team_user_ids_for_schema_updates"),
        UnmarshalStringsField(m, "team_user_ids_for_sms"),
        UnmarshalBoolField(m, "user_email_notifications"),
        UnmarshalBoolField(m, "user_schema_update_notifications"),
        UnmarshalBoolField(m, "user_text_notifications"))

\* types.ListValueFrom(ctx, types.StringType, []string)
ListValueFromStrings(strs) ==
    ListValue(StringType, [n \in 1..Len(strs) |-> StringValue(strs[n])])

\* A mapper that leaves the list of an absent member null.
RecipientListOrNull(p) ==
    IF ~p.nil THEN ListValueFromStrings(p.v)
    ELSE [val |-> [ty |-> ListType(StringType), state |-> "null", elems |-> <<>>],
          diags |-> <<>>]

\* The branch `if p != nil { ListValueFrom(*p) } else { ListValue(StringType, nil) }`
RecipientList(p) ==
    IF ~p.nil THEN ListValueFromStrings(p.v) ELSE ListValue(StringType, <<>>)

\* types.List.ElementsAs(ctx, &[]string, false): needs a known list of known
\* strings.
ElementsAsStrings(list) ==
    IF /\ list.state = "known"
       /\ \A n \in 1..Len(list.elems) : list.elems[n].state = "known"
    THEN [val |-> [n \in 1..Len(list.elems) |-> list.elems[n].s], diags |-> <<>>]
    ELSE [val |-> <<>>,
          diags |-> <<ErrorDiagnostic("Value Conversion Error",
                                      "cannot convert list", {}, 0, "", "")>>]

\* json.Marshal(apiNotifications) followed by json.Unmarshal into a
\* map[string]interface{}: a member for every non-nil pointer.
NotificationToMap(n) ==
    LET present ==
            (IF n.OtherEmailNotifications.nil THEN {} ELSE {"other_email_notifications"})
            \cup (IF n.TeamUserIdsForEmail.nil THEN {} ELSE {"team_user_ids_for_email"})
            \cup (IF n.TeamUserIdsForSchemaUpdates.nil THEN {}
                  ELSE {"team_user_ids_for_schema_updates"})
            \cup (IF n.TeamUserIdsForSms.nil THEN {} ELSE {"team_user_ids_for_sms"})
            \cup (IF n.UserEmailNotifications.nil THEN {} ELSE {"user_email_notifications"})
            \cup (IF n.UserSchemaUpdateNotifications.nil THEN {}
                  ELSE {"user_schema_update_notifications"})
            \cup (IF n.UserTextNotifications.nil THEN {} ELSE {"user_text_notifications"})
        strs(p) == GoSlice([i \in 1..Len(p.v) |-> GoString(p.v[i])])
    IN  [key \in present |->
            CASE key = "other_email_notifications" -> GoString(n.OtherEmailNotifications.v)
              [] key = "team_user_ids_for_email" -> strs(n.TeamUserIdsForEmail)
              [] key = "team_user_ids_for_schema_updates" ->
                    strs(n.TeamUserIdsForSchemaUpdates)
              [] key = "team_user_ids_for_sms" -> strs(n.TeamUserIdsForSms)
              [] key = "user_email_notifications" -> GoBool(n.UserEmailNotifications.v)
              [] key = "user_schema_update_notifications" ->
                    GoBool(n.UserSchemaUpdateNotifications.v)
              [] OTHER -> GoBool(n.UserTextNotifications.v)]

-----------------------------------------------------------------------------
(* Resource Model Mapper: source *)

NilNotifications == [nil |-> TRUE, v |-> <<>>]

\* The zero api.Source.
ApiSourceZero ==
    [Name                        |-> "",
     ApiQuota                    |-> NilInt,
     BigqueryTableTtl            |-> NilInt,
     BqTableId                   |-> NilString,
     CustomEventMessageKeys      |-> NilString,
     DefaultIngestBackendEnabled |-> NilBool,
     Favorite                    |-> NilBool,
     HasRejectedEvents           |-> NilBool,
     Id                          |-> NilInt,
     InsertedAt                  |-> NilTime,
     Metrics                     |-> NilMap,
     Notifications               |-> NilNotifications,
     PublicToken                 |-> NilString,
     SlackHookUrl                |-> NilString,
     Token                       |-> NilString,
     UpdatedAt                   |-> NilTime,
     WebhookNotificationUrl      |-> NilString]

\* The zero SourceResourceModel (`var data SourceResourceModel`).
SourceModelZero ==
    [ApiQuota                    |-> Int32Null,
     BigqueryTableTtl            |-> Int32Null,
     BqTableId                   |-> StringNull,
     CustomEventMessageKeys      |-> StringNull,
     DefaultIngestBackendEnabled |-> BoolNull,
     Favorite                    |-> BoolNull,
     HasRejectedEvents           |-> BoolNull,
     Id                          |-> Int64Null,
     InsertedAt                  |-> StringNull,
     Metrics                     |-> NormalizedNull,
     Name                        |-> StringNull,
     Notifications               |-> NotificationsNull,
     PublicToken                 |-> StringNull,
     SlackHookUrl                |-> StringNull,
     Token                       |-> StringNull,
     UpdatedAt                   |-> StringNull,
     WebhookNotificationUrl      |-> StringNull]

\* Lines 419-422 of sourceSchemaToModel: data.Notifications is assigned
\* whatever types.ObjectValueFrom gives, and its diagnostics are returned only
\* when they hold an error.
notificationObjectToModel(obj) ==
    [set |-> TRUE, val |-> obj.val,
     diags |-> IF HasError(obj.diags) THEN obj.diags ELSE <<>>]

\* Lines 384-417 of sourceSchemaToModel: the NotificationModel of the decoded
\* api.Notification n and of its three recipient lists.
notificationStructToModel(n, email, schema, sms) ==
    IF HasError(email.diags \o schema.diags \o sms.diags)
    THEN [set |-> FALSE, val |-> NotificationsNull,
          diags |-> email.diags \o schema.diags \o sms.diags]
    ELSE notificationObjectToModel(
             ObjectValue(NotificationAttributeTypes,
                 [other_email_notifications |->
                      StringPointerValue(n.OtherEmailNotifications),
                  team_user_ids_for_email          |-> email.val,
                  team_user_ids_for_schema_updates |-> schema.val,
                  team_user_ids_for_sms            |-> sms.val,
                  user_email_notifications |->
                      BoolPointerValue(n.UserEmailNotifications),
                  user_schema_update_notifications |->
                      BoolPointerValue(n.UserSchemaUpdateNotifications),
                  user_text_notifications |->
                      BoolPointerValue(n.UserTextNotifications)]))

\* Lines 375-383 of sourceSchemaToModel: un is what the marshal/unmarshal
\* round trip into api.Notification gave.
notificationMapToModel(un) ==
    IF ~un.ok
    THEN [set |-> FALSE, val |-> NotificationsNull,
          diags |-> <<ErrorDiagnostic(
                        "Can't unmarshal 'notifications' map into struct",
                        "%s", {"err"}, 0, "", "json: cannot unmarshal")>>]
    ELSE notificationStructToModel(
             un.val,
             RecipientList(un.val.TeamUserIdsForEmail),
             RecipientList(un.val.TeamUserIdsForSchemaUpdates),
             RecipientList(un.val.TeamUserIdsForSms))

\* Lines 372-426 of sourceSchemaToModel: the notifications of the response.
sourceNotificationsToModel(p) ==
    IF ~p.nil
    THEN notificationMapToModel(UnmarshalNotification(p.v))
    ELSE [set |-> TRUE, val |-> NotificationsNull, diags |-> <<>>]

\* Lines 335-370 of sourceSchemaToModel: every field but the notifications.
sourceFieldsToModel(r, data) ==
    [data EXCEPT
       !.Id = [ty |-> Int64Type, state |-> "known", i |-> r.Id.v],
       !.Name = StringValue(r.Name),
       !.ApiQuota = Int32PointerValue(intPtrToInt32Ptr(r.ApiQuota)),
       !.BigqueryTableTtl =
           Int32PointerValue(intPtrToInt32Ptr(r.BigqueryTableTtl)),
       !.BqTableId = StringPointerValue(r.BqTableId),
       !.CustomEventMessageKeys = StringPointerValue(r.CustomEventMessageKeys),
       !.DefaultIngestBackendEnabled =
           BoolPointerValue(r.DefaultIngestBackendEnabled),
       !.Favorite = BoolPointerValue(r.Favorite),
       !.HasRejectedEvents = BoolPointerValue(r.HasRejectedEvents),
       !.PublicToken = StringPointerValue(r.PublicToken),
       !.SlackHookUrl = StringPointerValue(r.SlackHookUrl),
       !.Token = StringPointerValue(r.Token),
       !.WebhookNotificationUrl = StringPointerValue(r.WebhookNotificationUrl),
       !.InsertedAt = IF r.InsertedAt.nil THEN StringNull
                      ELSE StringValue(FormatRFC3339(r.InsertedAt.v)),
       !.UpdatedAt = IF r.UpdatedAt.nil THEN StringNull
                     ELSE StringValue(FormatRFC3339(r.UpdatedAt.v)),
       !.Metrics = IF ~r.Metrics.nil
                   THEN NormalizedValue(JsonMarshalMap(r.Metrics))
                   ELSE NormalizedValue("{}")]

\* The model and the diagnostics sourceSchemaToModel ends with: d1 holds the
\* other fields, notif is what the notifications branch gave.
sourceModelWithNotifications(d1, notif) ==
    [data  |-> IF notif.set THEN [d1 EXCEPT !.Notifications = notif.val] ELSE d1,
     diags |-> notif.diags,
     panic |-> FALSE]

\* sourceSchemaToModel(ctx, result, data): result is a *api.Source.  Gives the
\* model afterwards, the diagnostics returned, and whether it panicked (nil
\* pointer dereference of result or of result.Id).
sourceSchemaToModel(result, data) ==
    IF result.nil \/ result.v.Id.nil
    THEN [data |-> data, diags |-> <<>>, panic |-> TRUE]
    ELSE sourceModelWithNotifications(
             sourceFieldsToModel(result.v, data),
             sourceNotificationsToModel(result.v.Notifications))

\* Lines 457-501 of sourceModelToApiSchema: model is the NotificationModel,
\* email, schema and sms what ElementsAs gave for its three lists.
notificationModelToApi(model, email, schema, sms) ==
    LET modelDiags ==
            (IF ~IsNull(model.team_user_ids_for_email) THEN email.diags ELSE <<>>)
            \o (IF ~IsNull(model.team_user_ids_for_schema_updates)
                THEN schema.diags ELSE <<>>)
            \o (IF ~IsNull(model.team_user_ids_for_sms) THEN sms.diags ELSE <<>>)
    IN  IF HasError(modelDiags)
        THEN [set |-> FALSE, p |-> NilNotifications, diags |-> modelDiags]
        ELSE [set |-> TRUE,
              p |-> Ptr(NotificationToMap(
                  [OtherEmailNotifications |->
                       ValueStringPointer(model.other_email_notifications),
                   UserEmailNotifications |->
                       ValueBoolPointer(model.user_email_notifications),
                   UserSchemaUpdateNotifications |->
                       ValueBoolPointer(model.user_schema_update_notifications),
                   UserTextNotifications |->
                       ValueBoolPointer(model.user_text_notifications),
                   TeamUserIdsForEmail |->
                       IF ~IsNull(model.team_user_ids_for_email)
                       THEN Ptr(email.val) ELSE NilSlice,
                   TeamUserIdsForSchemaUpdates |->
                       IF ~IsNull(model.team_user_ids_for_schema_updates)
                       THEN Ptr(schema.val) ELSE NilSlice,
                   TeamUserIdsForSms |->
                       IF ~IsNull(model.team_user_ids_for_sms)
                       THEN Ptr(sms.val) ELSE NilSlice])),
              diags |-> <<>>]

\* Lines 450-501 of sourceModelToApiSchema: the notifications of the model.
sourceNotificationsToApi(obj) ==
    notificationModelToApi(
        obj.attrs,
        ElementsAsStrings(obj.attrs.team_user_ids_for_email),
        ElementsAsStrings(obj.attrs.team_user_ids_for_schema_updates),
        ElementsAsStrings(obj.attrs.team_user_ids_for_sms))

\* Lines 432-448 of sourceModelToApiSchema: the api.Source literal.  The
\* diagnostics of data.Metrics.Unmarshal are discarded.
sourceFieldsToApi(data) ==
    [ApiSourceZero EXCEPT
       !.Name = ValueString(data.Name),
       !.ApiQuota = int32PtrToIntPtr(ValueInt32Pointer(data.ApiQuota)),
       !.BigqueryTableTtl =
           int32PtrToIntPtr(ValueInt32Pointer(data.BigqueryTableTtl)),
       !.BqTableId = ValueStringPointer(data.BqTableId),
       !.CustomEventMessageKeys =
           ValueStringPointer(data.CustomEventMessageKeys),
       !.DefaultIngestBackendEnabled =
           ValueBoolPointer(data.DefaultIngestBackendEnabled),
       !.Favorite = ValueBoolPointer(data.Favorite),
       !.Metrics = NormalizedUnmarshal(data.Metrics).target,
       !.SlackHookUrl = ValueStringPointer(data.SlackHookUrl),
       !.Token = ValueStringPointer(data.Token),
       !.WebhookNotificationUrl =
           ValueStringPointer(data.WebhookNotificationUrl)]

\* What sourceModelToApiSchema returns once the notifications branch is done.
sourceBodyWithNotifications(body, notif) ==
    IF ~notif.set
    THEN [body |-> body, diags |-> notif.diags]
    ELSE [body  |-> [body EXCEPT !.Notifications = notif.p], diags |-> <<>>]

\* sourceModelToApiSchema(ctx, data): the api.Source to send and the
\* diagnostics.
sourceModelToApiSchema(data) ==
    IF ~IsNull(data.Notifications) /\ ~IsUnknown(data.Notifications)
    THEN sourceBodyWithNotifications(
             sourceFieldsToApi(data),
             sourceNotificationsToApi(data.Notifications))
    ELSE [body |-> sourceFieldsToApi(data), diags |-> <<>>]

-----------------------------------------------------------------------------
(* Resource Model Mapper: endpoint *)

\* The zero api.EndpointApiSchema.
ApiEndpointZero ==
    [CacheDurationSeconds       |-> NilInt,
     Description                |-> NilString,
     EnableAuth                 |-> NilBool,
     Id                         |-> NilInt,
     MaxLimit                   |-> NilInt,
     Name                       |-> "",
     ProactiveRequeryingSeconds |-> NilInt,
     Query                      |-> "",
     Sandboxable                |-> NilBool,
     SourceMapping              |-> NilMap,
     Token                      |-> NilString]

\* The zero EndpointResourceModel.
EndpointModelZero ==
    [CacheDurationSeconds       |-> Int32Null,
     Description                |-> StringNull,
     EnableAuth                 |-> BoolNull,
     Id                         |-> Int64Null,
     MaxLimit                   |-> Int32Null,
     Name                       |-> StringNull,
     ProactiveRequeryingSeconds |-> Int32Null,
     Query                      |-> StringNull,
     Sandboxable                |-> BoolNull,
     SourceMapping              |-> NormalizedNull,
     Token                      |-> StringNull]

\* endpointApiSchemaToModel(result, data): panics when result.Id is nil.
\* json.Marshal of a map cannot fail, so no diagnostic is ever returned.
endpointApiSchemaToModel(result, data) ==
    IF result.nil \/ result.v.Id.nil
    THEN [data |-> data, diags |-> <<>>, panic |-> TRUE]
    ELSE
    LET r == result.v
    IN  [data |-> [data EXCEPT
                 !.Id = [ty |-> Int64Type, state |-> "known", i |-> r.Id.v],
                 !.CacheDurationSeconds =
                     Int32PointerValue(intPtrToInt32Ptr(r.CacheDurationSeconds)),
                 !.Description = StringPointerValue(r.Description),
                 !.EnableAuth = BoolPointerValue(r.EnableAuth),
                 !.MaxLimit = Int32PointerValue(intPtrToInt32Ptr(r.MaxLimit)),
                 !.Name = StringValue(r.Name),
                 !.ProactiveRequeryingSeconds =
                     Int32PointerValue(intPtrToInt32Ptr(r.ProactiveRequeryingSeconds)),
                 !.Query = StringValue(r.Query),
                 !.Sandboxable = BoolPointerValue(r.Sandboxable),
                 !.SourceMapping = NormalizedValue(JsonMarshalMap(r.SourceMapping)),
                 !.Token = StringPointerValue(r.Token)],
         diags |-> <<>>,
         panic |-> FALSE]

\* endpointResourcetoApiSchema(data).  The diagnostics of
\* data.SourceMapping.Unmarshal are discarded.
endpointResourcetoApiSchema(data) ==
    LET source_mapping == NormalizedUnmarshal(data.SourceMapping).target
    IN  [ApiEndpointZero EXCEPT
           !.CacheDurationSeconds =
               int32PtrToIntPtr(ValueInt32Pointer(data.CacheDurationSeconds)),
           !.Description = ValueStringPointer(data.Description),
           !.EnableAuth = ValueBoolPointer(data.EnableAuth),
           !.MaxLimit = int32PtrToIntPtr(ValueInt32Pointer(data.MaxLimit)),
           !.Name = ValueString(data.Name),
           !.ProactiveRequeryingSeconds =
               int32PtrToIntPtr(ValueInt32Pointer(data.ProactiveRequeryingSeconds)),
           !.Query = ValueString(data.Query),
           !.Sandboxable = ValueBoolPointer(data.Sandboxable),
           !.SourceMapping = source_mapping,
           !.Token = ValueStringPointer(data.Token)]

-----------------------------------------------------------------------------
(* Outbound call collaborator: api.ClientWithResponses *)

\* A response of one outbound call: a transport error (err # ""), or a status
\* code, the raw body, and a pointer to the decoded success body (JSON201 of a
\* create, JSON200 of a show, update or query; nil when the client decoded none).
NilJson == [nil |-> TRUE, v |-> <<>>]
TransportError(e) == [err |-> e, status |-> 0, body |-> "", json |-> NilJson]
HttpResponse(st, bd, js) == [err |-> "", status |-> st, body |-> bd, json |-> js]

\* One outbound call: the operation, the token it is addressed with and
\* whether it carries a wire schema.
OutboundCall(fn, token, hasBody) == [fn |-> fn, token |-> token, hasBody |-> hasBody]

\* What a helper (createSource, readSource, ...) hands back to its handler:
\* the diagnostics, the outbound calls issued, the wire schemas sent, the model
\* afterwards and whether it panicked.
Outcome(diags, calls, sent, data, panic) ==
    [diags |-> diags, calls |-> calls, sent |-> sent, data |-> data, panic |-> panic]

ClientError(text, argNames, st, bd, er) ==
    <<ErrorDiagnostic("Client Error", text, argNames, st, bd, er)>>

\* A helper that ends with `return ...SchemaToModel(...)`: m is what the mapper
\* gave.
Decoded(m, calls, sent) == Outcome(m.diags, calls, sent, m.data, m.panic)

\* updateSource ends with `return readSource(...)`: rd is what readSource gave.
ReadBack(rd, call, body) ==
    Outcome(rd.diags, <<call>> \o rd.calls, <<body>>, rd.data, rd.panic)

-----------------------------------------------------------------------------
(* Reconciliation Controller: source *)

\* createSource(ctx, data, client); resp is what the create call returns.
createSource(data, resp) ==
    LET api  == sourceModelToApiSchema(data)
        call == OutboundCall("source.create", "", TRUE)
    IN  IF HasError(api.diags)
        THEN Outcome(api.diags, <<>>, <<>>, data, FALSE)
        ELSE IF resp.err # ""
        THEN Outcome(ClientError("Unable to create endpoint, got error: %s",
                                 {"err"}, 0, "", resp.err),
                     <<call>>, <<api.body>>, data, FALSE)
        ELSE IF resp.status # 201
        THEN Outcome(ClientError("Unable to create endpoint, got status %d: %s",
                                 {"status", "body"}, resp.status, resp.body, ""),
                     <<call>>, <<api.body>>, data, FALSE)
        ELSE Decoded(sourceSchemaToModel(resp.json, data), <<call>>, <<api.body>>)

\* Plausible slip: the name of the prior Record survives the read.
readSourceKeepName(data, resp) ==
    LET call == OutboundCall("source.show", ValueString(data.Token), FALSE)
        m    == sourceSchemaToModel(resp.json, data)
    IN  IF resp.err # "" \/ resp.status # 200
        THEN Outcome(ClientError("Unable to read source, got status %d: %s",
                                 {"status", "body"}, resp.status, resp.body, ""),
                     <<call>>, <<>>, data, FALSE)
        ELSE Outcome(m.diags, <<call>>, <<>>,
                     [m.data EXCEPT !.Name = data.Name], m.panic)

\* readSource(ctx, data, client); resp is what the show call returns.
readSource(data, resp) ==
    LET call == OutboundCall("source.show", ValueString(data.Token), FALSE)
    IN  IF resp.err # ""
        THEN Outcome(ClientError("Unable to read source, got error: %s",
                                 {"err"}, 0, "", resp.err),
                     <<call>>, <<>>, data, FALSE)
        ELSE IF resp.status # 200
        THEN Outcome(ClientError("Unable to read source, got status %d: %s",
                                 {"status", "body"}, resp.status, resp.body, ""),
                     <<call>>, <<>>, data, FALSE)
        ELSE Decoded(sourceSchemaToModel(resp.json, data), <<call>>, <<>>)

\* Plausible slip: the status of the update response is not checked.
updateSourceUnchecked(data, resp, resp2) ==
    LET api  == sourceModelToApiSchema(data)
        call == OutboundCall("source.update", ValueString(data.Token), TRUE)
    IN  IF HasError(api.diags)
        THEN Outcome(api.diags, <<>>, <<>>, data, FALSE)
        ELSE ReadBack(readSource(data, resp2), call, api.body)

\* updateSource(ctx, data, client); resp is what the update call returns,
\* resp2 what the show call of the trailing readSource returns.
updateSource(data, resp, resp2) ==
    LET api  == sourceModelToApiSchema(data)
        call == OutboundCall("source.update", ValueString(data.Token), TRUE)
    IN  IF HasError(api.diags)
        THEN Outcome(api.diags, <<>>, <<>>, data, FALSE)
        ELSE IF resp.err # ""
        THEN Outcome(ClientError("Unable to update source, got error: %s",
                                 {"err"}, 0, "", resp.err),
                     <<call>>, <<api.body>>, data, FALSE)
        ELSE IF resp.status < 200 \/ resp.status >= 300
        THEN Outcome(ClientError("Unable to update source, got status %d: %s",
                                 {"status", "body"}, resp.status, resp.body, ""),
                     <<call>>, <<api.body>>, data, FALSE)
        ELSE ReadBack(readSource(data, resp2), call, api.body)

\* Plausible slip: any 2xx status counts as a successful delete.
deleteSourceAny2xx(data, resp) ==
    LET call == OutboundCall("source.delete", ValueString(data.Token), FALSE)
    IN  IF resp.err # ""
        THEN Outcome(ClientError("Unable to delete source, got error: %s",
                                 {"err"}, 0, "", resp.err),
                     <<call>>, <<>>, data, FALSE)
        ELSE IF resp.status < 200 \/ resp.status >= 300
        THEN Outcome(ClientError("Unable to delete source, got status %d: %s",
                                 {"status", "body"}, resp.status, resp.body, ""),
                     <<call>>, <<>>, data, FALSE)
        ELSE Outcome(<<>>, <<call>>, <<>>, data, FALSE)

\* deleteSource(ctx, data, client)
deleteSource(data, resp) ==
    LET call == OutboundCall("source.delete", ValueString(data.Token), FALSE)
    IN  IF resp.err # ""
        THEN Outcome(ClientError("Unable to delete source, got error: %s",
                                 {"err"}, 0, "", resp.err),
                     <<call>>, <<>>, data, FALSE)
        ELSE IF resp.status # 204
        THEN Outcome(ClientError("Unable to delete source, got status %d: %s",
                                 {"status", "body"}, resp.status, resp.body, ""),
                     <<call>>, <<>>, data, FALSE)
        ELSE Outcome(<<>>, <<call>>, <<>>, data, FALSE)

-----------------------------------------------------------------------------
(* Reconciliation Controller: endpoint *)

\* createEndpoint(ctx, data, client)
createEndpoint(data, resp) ==
    LET body == endpointResourcetoApiSchema(data)
        call == OutboundCall("endpoint.create", "", TRUE)
    IN  IF resp.err # ""
        THEN Outcome(ClientError("Unable to create endpoint, got error: %s",
                                 {"err"}, 0, "", resp.err),
                     <<call>>, <<body>>, data, FALSE)
        ELSE IF resp.json.nil
        THEN Outcome(ClientError("Unable to create endpoint, got status %d: %s",
                                 {"status", "body"}, resp.status, resp.body, ""),
                     <<call>>, <<body>>, data, FALSE)
        ELSE Decoded(endpointApiSchemaToModel(resp.json, data), <<call>>, <<body>>)

\* Plausible slip: a transport error of the show call is only warned about.
readEndpointWarnsOnly(data, resp) ==
    LET call == OutboundCall("endpoint.show", ValueString(data.Token), FALSE)
    IN  IF resp.err # ""
        THEN Outcome(<<WarningDiagnostic("Client Error",
                                         "Unable to read endpoint")>>,
                     <<call>>, <<>>, data, FALSE)
        ELSE IF resp.json.nil
        THEN Outcome(ClientError("Unable to read endpoint, got status %d: %s",
                                 {"status", "body"}, resp.status, resp.body, ""),
                     <<call>>, <<>>, data, FALSE)
        ELSE Decoded(endpointApiSchemaToModel(resp.json, data), <<call>>, <<>>)

\* readEndpoint(ctx, data, client)
readEndpoint(data, resp) ==
    LET call == OutboundCall("endpoint.show", ValueString(data.Token), FALSE)
    IN  IF resp.err # ""
        THEN Outcome(ClientError("Unable to read endpoint, got error: %s",
                                 {"err"}, 0, "", resp.err),
                     <<call>>, <<>>, data, FALSE)
        ELSE IF resp.json.nil
        THEN Outcome(ClientError("Unable to read endpoint, got status %d: %s",
                                 {"status", "body"}, resp.status, resp.body, ""),
                     <<call>>, <<>>, data, FALSE)
        ELSE Decoded(endpointApiSchemaToModel(resp.json, data), <<call>>, <<>>)

\* Plausible slip: only what changed since the last Read is sent.
updateEndpointDiff(data, resp) ==
    LET full == endpointResourcetoApiSchema(data)
        body == [full EXCEPT
                   !.Description = IF data.Description = state.rec.Description
                                   THEN NilString ELSE full.Description,
                   !.EnableAuth = IF data.EnableAuth = state.rec.EnableAuth
                                  THEN NilBool ELSE full.EnableAuth]
        call == OutboundCall("endpoint.update", ValueString(data.Token), TRUE)
    IN  IF resp.err # ""
        THEN Outcome(ClientError("Unable to update endpoint, got error: %s",
                                 {"err"}, 0, "", resp.err),
                     <<call>>, <<body>>, data, FALSE)
        ELSE IF resp.json.nil
        THEN Outcome(ClientError("Unable to update endpoint, got status %d: %s",
                                 {"status", "body"}, resp.status, resp.body, ""),
                     <<call>>, <<body>>, data, FALSE)
        ELSE Decoded(endpointApiSchemaToModel(resp.json, data), <<call>>, <<body>>)

\* Plausible slip: the error diagnostic of a rejected update is dropped.
updateEndpointSilent(data, resp) ==
    LET body == endpointResourcetoApiSchema(data)
        call == OutboundCall("endpoint.update", ValueString(data.Token), TRUE)
    IN  IF resp.err # "" \/ resp.json.nil
        THEN Outcome(<<>>, <<call>>, <<body>>, data, FALSE)
        ELSE Decoded(endpointApiSchemaToModel(resp.json, data), <<call>>, <<body>>)

\* updateEndpoint(ctx, data, client)
updateEndpoint(data, resp) ==
    LET body == endpointResourcetoApiSchema(data)
        call == OutboundCall("endpoint.update", ValueString(data.Token), TRUE)
    IN  IF resp.err # ""
        THEN Outcome(ClientError("Unable to update endpoint, got error: %s",
                                 {"err"}, 0, "", resp.err),
                     <<call>>, <<body>>, data, FALSE)
        ELSE IF resp.json.nil
        THEN Outcome(ClientError("Unable to update endpoint, got status %d: %s",
                                 {"status", "body"}, resp.status, resp.body, ""),
                     <<call>>, <<body>>, data, FALSE)
        ELSE Decoded(endpointApiSchemaToModel(resp.json, data), <<call>>, <<body>>)

\* deleteEndpoint(ctx, data, client)
deleteEndpoint(data, resp) ==
    LET call == OutboundCall("endpoint.delete", ValueString(data.Token), FALSE)
    IN  IF resp.err # ""
        THEN Outcome(ClientError("Unable to delete endpoint, got error: %s",
                                 {"err"}, 0, "", resp.err),
                     <<call>>, <<>>, data, FALSE)
        ELSE IF resp.status # 204
        THEN Outcome(ClientError("Unable to delete endpoint, got status %d: %s",
                                 {"status", "body"}, resp.status, resp.body, ""),
                     <<call>>, <<>>, data, FALSE)
        ELSE Outcome(<<>>, <<call>>, <<>>, data, FALSE)

-----------------------------------------------------------------------------
(* Reconciliation Controller: endpoint query data source *)

\* The zero EndpointQueryDataSourceModel.
DynamicNull == [ty |-> DynamicType, state |-> "null", inner |-> StringNull]
QueryModelZero == [NameOrToken |-> StringNull, Result |-> DynamicNull]

RECURSIVE convertRows(_)
\* The loop of readEndpoints over the result rows: stops at the first row
\* whose conversion reports an error.
convertRows(rows) ==
    IF Len(rows) = 0
    THEN [values |-> <<>>, diags |-> <<>>]
    ELSE LET init == convertRows(SubSeq(rows, 1, Len(rows) - 1))
             obj  == convertMapToObject(rows[Len(rows)])
         IN  IF HasError(init.diags) THEN init
             ELSE IF HasError(obj.diags)
             THEN [values |-> init.values, diags |-> obj.diags]
             ELSE [values |-> Append(init.values, DynamicValue(obj.val)),
                   diags  |-> <<>>]

\* readEndpoints(ctx, data, client) of the endpoint query data source; the
\* JSON200 of the query call has the fields Error and Result (both pointers).
readEndpoints(data, resp) ==
    LET call == OutboundCall("endpoint.query", ValueString(data.NameOrToken), FALSE)
    IN  IF resp.err # ""
        THEN Outcome(ClientError("Unable to read endpoints, got error: %s",
                                 {"err"}, 0, "", resp.err),
                     <<call>>, <<>>, data, FALSE)
        ELSE IF resp.json.nil
        THEN Outcome(ClientError("Unable to read endpoints, got status %d: %s",
                                 {"status", "body"}, resp.status, resp.body, ""),
                     <<call>>, <<>>, data, FALSE)
        ELSE IF ~resp.json.v.Error.nil
        THEN Outcome(<<ErrorDiagnostic("Response Error",
                                       "Endpoints API returned an error: %s",
                                       {"err"}, 0, "", resp.json.v.Error.v)>>,
                     <<call>>, <<>>, data, FALSE)
        ELSE IF resp.json.v.Result.nil
        THEN Outcome(<<>>, <<call>>, <<>>, data, TRUE)
        ELSE LET conv == convertRows(resp.json.v.Result.v)
                 list == ListValue(DynamicType, conv.values)
             IN  IF HasError(conv.diags)
                 THEN Outcome(conv.diags, <<call>>, <<>>, data, FALSE)
                 ELSE IF HasError(list.diags)
                 THEN Outcome(list.diags, <<call>>, <<>>, data, FALSE)
                 ELSE Outcome(<<>>, <<call>>, <<>>,
                              [data EXCEPT !.Result = DynamicValue(list.val)], FALSE)

-----------------------------------------------------------------------------
(* Handlers.  Each gives the diagnostics of the response, the outbound calls *)
(* issued, the model it ended with, whether it panicked and whether it       *)
(* reached resp.State.Set.                                                   *)

HandlerResult(out, set) ==
    [diags |-> out.diags, calls |-> out.calls, sent |-> out.sent,
     data |-> out.data, panic |-> out.panic, set |-> set]

\* The tail of a handler: State.Set is reached unless the helper left an error
\* (or crashed).
\* A handler that saves the Record whatever the Diagnostics hold.
FinishedAnyway(out) == HandlerResult(out, ~out.panic)

Finished(out) == HandlerResult(out, ~out.panic /\ ~HasError(out.diags))

ReturnedEarly(diags, data) ==
    [diags |-> diags, calls |-> <<>>, sent |-> <<>>,
     data |-> data, panic |-> FALSE, set |-> FALSE]

\* (r *SourceResource) Create
SourceResourceCreate(plan, resp) ==
    Finished(createSource(plan, resp))

\* Variant: a null token ends Read without a word.
SourceResourceReadSilent(prior, resp) ==
    IF IsNull(prior.Token)
    THEN ReturnedEarly(<<>>, prior)
    ELSE Finished(readSource(prior, resp))

\* (r *SourceResource) Read
SourceResourceRead(prior, resp) ==
    IF IsNull(prior.Token)
    THEN ReturnedEarly(<<WarningDiagnostic("Resource Read Ignored",
                                           "Source token is null, cannot read.")>>,
                       prior)
    ELSE Finished(readSource(prior, resp))

\* (r *SourceResource) Update
SourceResourceUpdate(plan, resp, resp2) ==
    Finished(updateSource(plan, resp, resp2))

\* Variant: Delete does not look at the token before it calls.
SourceResourceDeleteAlways(prior, resp) ==
    HandlerResult(deleteSource(prior, resp), FALSE)

\* (r *SourceResource) Delete
SourceResourceDelete(prior, resp) ==
    IF IsNull(prior.Token)
    THEN ReturnedEarly(<<>>, prior)
    ELSE HandlerResult(deleteSource(prior, resp), FALSE)

\* (r *EndpointResource) Create
EndpointResourceCreate(plan, resp) ==
    Finished(createEndpoint(plan, resp))

\* (r *EndpointResource) Read
EndpointResourceRead(prior, resp) ==
    IF IsNull(prior.Token)
    THEN ReturnedEarly(<<>>, prior)
    ELSE Finished(readEndpoint(prior, resp))

\* (r *EndpointResource) Update
EndpointResourceUpdate(plan, resp) ==
    Finished(updateEndpoint(plan, resp))

\* (r *EndpointResource) Delete
EndpointResourceDelete(prior, resp) ==
    IF IsNull(prior.Token)
    THEN ReturnedEarly(<<>>, prior)
    ELSE HandlerResult(deleteEndpoint(prior, resp), FALSE)

\* resp.State.Set(ctx, &data) of the data source: the framework turns Result
\* into a Terraform value, and a Terraform list holds elements of one concrete
\* type only.  The rows are wrapped as dynamic values, so their object types
\* are compared here for the first time; rows of differing types make
\* State.Set return an error and leave the state alone.
StateSetQuery(data) ==
    LET rows == data.Result.inner.elems
    IN  IF \A n1, n2 \in 1..Len(rows) :
               TypeOf(rows[n1].inner) = TypeOf(rows[n2].inner)
        THEN <<>>
        ELSE <<ErrorDiagnostic("Value Conversion Error",
                               "lists must only contain one type of element",
                               {}, 0, "", "")>>

\* The tail of the data source Read: State.Set is reached unless readEndpoints
\* left an error (or crashed); stored is what State.Set returned.
FinishedQuery(out, stored) ==
    IF out.panic \/ HasError(out.diags)
    THEN HandlerResult(out, FALSE)
    ELSE [diags |-> out.diags \o stored, calls |-> out.calls, sent |-> out.sent,
          data |-> out.data, panic |-> FALSE, set |-> ~HasError(stored)]

\* Lines 94-100 of Read: out is what readEndpoints gave.
StoredQuery(out) ==
    FinishedQuery(out, IF out.panic \/ HasError(out.diags) THEN <<>>
                       ELSE StateSetQuery(out.data))

\* (d *EndpointQueryDataSource) Read
EndpointQueryDataSourceRead(config, resp) ==
    StoredQuery(readEndpoints(config, resp))

\* The handler the host invokes for operation op of an instance of kind k;
\* r1 and r2 are what its first and second outbound call return.
Handle(k, op, input, r1, r2) ==
    CASE k = "source"   /\ op = "Create" -> SourceResourceCreate(input, r1)
      [] k = "source"   /\ op = "Read"   -> SourceResourceRead(input, r1)
      [] k = "source"   /\ op = "Update" -> SourceResourceUpdate(input, r1, r2)
      [] k = "source"   /\ op = "Delete" -> SourceResourceDelete(input, r1)
      [] k = "endpoint" /\ op = "Create" -> EndpointResourceCreate(input, r1)
      [] k = "endpoint" /\ op = "Read"   -> EndpointResourceRead(input, r1)
      [] k = "endpoint" /\ op = "Update" -> EndpointResourceUpdate(input, r1)
      [] k = "endpoint" /\ op = "Delete" -> EndpointResourceDelete(input, r1)
      [] OTHER -> EndpointQueryDataSourceRead(input, r1)

-----------------------------------------------------------------------------
(* Bounded inputs of the handlers *)

StatusCodes == {200, 201, 204, 404, 500}

\* The raw body of a response that spells the token it was asked about.
EchoBody(token) ==
    IF token = "tok-1" THEN "no resource with token tok-1"
    ELSE "no resource with token s3cret"

\* The responses of one outbound call whose success body is decoded at status
\* success: a transport error, every status without a decoded body, and the
\* success status with each decoded body.
Responses(success, bodies) ==
    {TransportError("connection refused")}
    \cup { HttpResponse(st, IF st >= 300 THEN "internal error" ELSE "", NilJson) :
             st \in StatusCodes }
    \cup {HttpResponse(404, EchoBody("tok-1"), NilJson)}
    \cup { HttpResponse(success, "json", Ptr(b)) : b \in bodies }

ListNullString == [ty |-> ListType(StringType), state |-> "null", elems |-> <<>>]

NotificationsValue(other, email, schema, sms, uEmail) ==
    [ty |-> ObjectType(NotificationAttributeTypes), state |-> "known",
     attrs |-> [other_email_notifications        |-> other,
                team_user_ids_for_email          |-> email,
                team_user_ids_for_schema_updates |-> schema,
                team_user_ids_for_sms            |-> sms,
                user_email_notifications         |-> uEmail,
                user_schema_update_notifications |-> BoolNull,
                user_text_notifications          |-> BoolNull]]

\* Notification settings of a desired Record: nothing set; some set; a list
\* that is not known yet.
NotificationsUnset ==
    NotificationsValue(StringNull, ListNullString, ListNullString, ListNullString,
                       BoolNull)
NotificationsSome ==
    NotificationsValue(StringValue("ops@example.com"),
                       ListValueFromStrings(<<"u1">>).val,
                       ListValueFromStrings(<<>>).val,
                       ListNullString, BoolValue(TRUE))
NotificationsPending ==
    NotificationsValue(StringUnknown, ListUnknown(StringType), ListNullString,
                       ListNullString, BoolUnknown)
\* The configuration `team_user_ids_for_email = ["u1", null]`.
NotificationsNullRecipient ==
    NotificationsValue(StringNull,
                       ListValue(StringType, <<StringValue("u1"), StringNull>>).val,
                       ListNullString, ListNullString, BoolNull)

StringFieldValues == {StringUnknown, StringValue("x")}
BoolFieldValues   == {BoolUnknown, BoolValue(TRUE), BoolValue(FALSE)}
Int32FieldValues  == {Int32Unknown, Int32Value(25), Int32Value(-3)}
JsonFieldValues   == {NormalizedUnknown} \cup { NormalizedValue(t) : t \in JsonTexts }

\* The values a field of a source Record takes besides null.
SourceFieldValues ==
    [ApiQuota                    |-> Int32FieldValues,
     BigqueryTableTtl            |-> Int32FieldValues,
     BqTableId                   |-> StringFieldValues,
     CustomEventMessageKeys      |-> StringFieldValues,
     DefaultIngestBackendEnabled |-> BoolFieldValues,
     Favorite                    |-> BoolFieldValues,
     HasRejectedEvents           |-> BoolFieldValues,
     Id                          |-> {Int64Unknown},
     InsertedAt                  |-> StringFieldValues,
     Metrics                     |-> JsonFieldValues,
     Name                        |-> {StringValue("renamed")},
     Notifications               |-> {NotificationsUnknown, NotificationsUnset,
                                      NotificationsSome, NotificationsPending,
                                      NotificationsNullRecipient},
     PublicToken                 |-> StringFieldValues,
     SlackHookUrl                |-> StringFieldValues,
     Token                       |-> {StringUnknown, StringValue("tok-1")},
     UpdatedAt                   |-> StringFieldValues,
     WebhookNotificationUrl      |-> StringFieldValues]

\* Only the required name is set.
SourceBasePlan == [SourceModelZero EXCEPT !.Name = StringValue("my-cool-source")]

\* The plan of `name = "my-cool-source", favorite = true`: defaults applied,
\* everything the server computes still unknown.
SourceExamplePlan ==
    [Name                        |-> StringValue("my-cool-source"),
     Favorite                    |-> BoolValue(TRUE),
     ApiQuota                    |-> Int32Value(25),
     BigqueryTableTtl            |-> Int32Unknown,
     BqTableId                   |-> StringUnknown,
     CustomEventMessageKeys      |-> StringUnknown,
     DefaultIngestBackendEnabled |-> BoolUnknown,
     HasRejectedEvents           |-> BoolUnknown,
     Id                          |-> Int64Unknown,
     InsertedAt                  |-> StringUnknown,
     Metrics                     |-> NormalizedUnknown,
     Notifications               |-> NotificationsUnknown,
     PublicToken                 |-> StringUnknown,
     SlackHookUrl                |-> StringUnknown,
     Token                       |-> StringUnknown,
     UpdatedAt                   |-> StringUnknown,
     WebhookNotificationUrl      |-> StringUnknown]

\* Every field the caller controls is set.
SourceFullPlan ==
    [SourceExamplePlan EXCEPT
       !.BigqueryTableTtl = Int32Value(7),
       !.BqTableId = StringValue("tbl"),
       !.CustomEventMessageKeys = StringValue("msg"),
       !.DefaultIngestBackendEnabled = BoolValue(FALSE),
       !.Metrics = NormalizedValue("{\"a\":1}"),
       !.Notifications = NotificationsSome,
       !.SlackHookUrl = StringValue("https://hooks.example/s"),
       !.Token = StringValue("tok-1"),
       !.WebhookNotificationUrl = StringValue("https://hooks.example/w")]

\* Source Records handed to the mapper: the three above; the base with one
\* field changed; the full one with one field null.
SourceRecords ==
    {SourceBasePlan, SourceExamplePlan, SourceFullPlan}
    \cup UNION { { [SourceBasePlan EXCEPT ![f] = v] : v \in SourceFieldValues[f] } :
                   f \in DOMAIN SourceFieldValues }
    \cup { [SourceFullPlan EXCEPT ![f] = SourceModelZero[f]] :
             f \in DOMAIN SourceFieldValues }

\* The plan of a configuration that sets every field the caller controls; what
\* only the server computes is still unknown.
SourceConfiguredPlan == [SourceFullPlan EXCEPT !.Token = StringUnknown]

\* Desired Records the host hands to Create and Update of a source.  The host
\* fills in the schema defaults, marks every computed attribute the
\* configuration leaves out as unknown, and rejects metrics that are not JSON.
SourcePlans ==
    {SourceExamplePlan, SourceConfiguredPlan,
     [SourceExamplePlan EXCEPT !.Metrics = NormalizedValue("[1]")],
     [SourceExamplePlan EXCEPT !.Notifications = NotificationsUnset],
     [SourceExamplePlan EXCEPT !.Notifications = NotificationsNullRecipient]}

\* Notification settings as the server sends them.
WireNotificationsSome ==
    [key \in {"other_email_notifications", "team_user_ids_for_email",
              "user_email_notifications"} |->
        CASE key = "other_email_notifications" -> GoString("ops@example.com")
          [] key = "team_user_ids_for_email" -> GoSlice(<<GoString("u1")>>)
          [] OTHER -> GoBool(TRUE)]
WireNotificationsMalformed ==
    [key \in {"team_user_ids_for_email"} |-> GoString("u1")]

\* The body of the end-to-end scenario.
SourceExampleBody ==
    [ApiSourceZero EXCEPT
       !.Id = Ptr(GoIntOf(0, 42)), !.Name = "my-cool-source",
       !.Favorite = Ptr(TRUE), !.Token = Ptr("tok-1")]

SourceFullBody ==
    [Name                        |-> "renamed",
     ApiQuota                    |-> Ptr(GoIntOf(0, 25)),
     BigqueryTableTtl            |-> Ptr(GoIntOf(0, 7)),
     BqTableId                   |-> Ptr("tbl"),
     CustomEventMessageKeys      |-> Ptr("msg"),
     DefaultIngestBackendEnabled |-> Ptr(FALSE),
     Favorite                    |-> Ptr(FALSE),
     HasRejectedEvents           |-> Ptr(TRUE),
     Id                          |-> Ptr(GoIntOf(0, 43)),
     InsertedAt                  |-> Ptr([sec |-> "2025-10-02T10:00:00Z", frac |-> 5]),
     Metrics                     |-> Ptr("map[a:1]"),
     Notifications               |-> Ptr(WireNotificationsSome),
     PublicToken                 |-> Ptr("pub-2"),
     SlackHookUrl                |-> Ptr("https://hooks.example/s"),
     Token                       |-> Ptr("tok-2"),
     UpdatedAt                   |-> Ptr([sec |-> "2025-10-02T11:00:00Z", frac |-> 0]),
     WebhookNotificationUrl      |-> Ptr("https://hooks.example/w")]

SourceBodies ==
    {SourceExampleBody, SourceFullBody,
     \* no token assigned
     [SourceExampleBody EXCEPT !.Token = NilString],
     \* no id
     [SourceExampleBody EXCEPT !.Id = NilInt],
     \* an api_quota of 2^32 + 25, outside the int32 range
     [SourceExampleBody EXCEPT !.ApiQuota = Ptr(GoIntOf(1, 25))],
     \* notifications with no member, and with a member of the wrong type
     [SourceExampleBody EXCEPT !.Notifications = Ptr(<<>>)],
     [SourceExampleBody EXCEPT !.Notifications = Ptr(WireNotificationsMalformed)],
     \* an empty metrics object
     [SourceExampleBody EXCEPT !.Metrics = Ptr("map[]")]}

\* The values a field of an endpoint Record takes besides null.
EndpointFieldValues ==
    [CacheDurationSeconds       |-> Int32FieldValues,
     Description                |-> StringFieldValues,
     EnableAuth                 |-> BoolFieldValues,
     Id                         |-> {Int64Unknown},
     MaxLimit                   |-> Int32FieldValues,
     Name                       |-> {StringValue("renamed")},
     ProactiveRequeryingSeconds |-> Int32FieldValues,
     Query                      |-> {StringValue("select 1")},
     Sandboxable                |-> BoolFieldValues,
     SourceMapping              |-> JsonFieldValues,
     Token                      |-> {StringUnknown, StringValue("tok-e")}]

\* Only the required name and query are set.
EndpointBasePlan ==
    [EndpointModelZero EXCEPT
       !.Name = StringValue("my_cool_endpoint"),
       !.Query = StringValue("select current_date as date")]

\* The plan of the configuration of TestEndpointsResource: defaults applied,
\* id and token still unknown.
EndpointExamplePlan ==
    [EndpointBasePlan EXCEPT
       !.CacheDurationSeconds = Int32Value(3600),
       !.EnableAuth = BoolValue(TRUE),
       !.Id = Int64Unknown,
       !.MaxLimit = Int32Value(1000),
       !.ProactiveRequeryingSeconds = Int32Value(1800),
       !.Sandboxable = BoolValue(FALSE),
       !.SourceMapping = NormalizedValue("{}"),
       !.Token = StringUnknown]

EndpointFullPlan ==
    [EndpointExamplePlan EXCEPT !.Description = StringValue("x"),
                                !.SourceMapping = NormalizedValue("{\"a\":1}"),
                                !.Token = StringValue("tok-e")]

\* Endpoint Records handed to the mapper.
EndpointRecords ==
    {EndpointBasePlan, EndpointExamplePlan, EndpointFullPlan}
    \cup UNION { { [EndpointBasePlan EXCEPT ![f] = v] : v \in EndpointFieldValues[f] } :
                   f \in DOMAIN EndpointFieldValues }
    \cup { [EndpointFullPlan EXCEPT ![f] = EndpointModelZero[f]] :
             f \in DOMAIN EndpointFieldValues }

EndpointConfiguredPlan == [EndpointFullPlan EXCEPT !.Token = StringUnknown]

\* Desired Records the host hands to Create and Update of an endpoint.
EndpointPlans ==
    {EndpointExamplePlan, EndpointConfiguredPlan,
     [EndpointExamplePlan EXCEPT !.SourceMapping = NormalizedValue("[1]")],
     [EndpointConfiguredPlan EXCEPT !.SourceMapping = NormalizedValue("null")]}

EndpointExampleBody ==
    [ApiEndpointZero EXCEPT
       !.Id = Ptr(GoIntOf(0, 1)), !.Name = "my_cool_endpoint",
       !.Query = "select current_date as date",
       !.EnableAuth = Ptr(TRUE), !.Token = Ptr("tok-e")]

EndpointBodies ==
    {EndpointExampleBody,
     [EndpointExampleBody EXCEPT
        !.CacheDurationSeconds = Ptr(GoIntOf(0, 3600)),
        !.Description = Ptr("x"), !.MaxLimit = Ptr(GoIntOf(0, 1000)),
        !.ProactiveRequeryingSeconds = Ptr(GoIntOf(0, 1800)),
        !.Sandboxable = Ptr(FALSE), !.SourceMapping = Ptr("map[a:1]"),
        !.Name = "renamed", !.Query = "select 1", !.Token = Ptr("tok-f")],
     [EndpointExampleBody EXCEPT !.Token = NilString],
     [EndpointExampleBody EXCEPT !.Id = NilInt],
     \* a max_limit of 2^32 + 1000, outside the int32 range
     [EndpointExampleBody EXCEPT !.MaxLimit = Ptr(GoIntOf(1, 1000))]}

\* Rows of a query result.
QueryRows ==
    { [key \in {"date"} |-> GoSlice(<<GoString("2025-10-02")>>)],
      [key \in {"a", "b"} |-> IF key = "a" THEN GoFloat64(1) ELSE GoNil],
      [key \in {"a", "b"} |-> IF key = "a" THEN GoFloat64(1) ELSE GoString("x")],
      [key \in {"a", "b"} |-> IF key = "a" THEN GoNil ELSE GoString("x")],
      [key \in {"a"} |-> GoSlice(<<GoFloat64(1), GoString("a")>>)],
      <<>> }

\* Largest number of rows of a query result.
MaxRows == 2

RECURSIVE SeqsUpTo(_, _)
SeqsUpTo(S, n) ==
    IF n = 0 THEN {<<>>}
    ELSE LET shorter == SeqsUpTo(S, n - 1)
         IN  shorter \cup { Append(q, x) : q \in {r \in shorter : Len(r) = n - 1},
                                           x \in S }

NilAny == [nil |-> TRUE, v |-> ""]

\* The decoded bodies of a query response: an error payload, a result, or
\* neither.
QueryBodies ==
    { [Error |-> NilAny, Result |-> Ptr(rows)] : rows \in SeqsUpTo(QueryRows, MaxRows) }
    \cup { [Error |-> Ptr("bad query"), Result |-> NilSlice],
           [Error |-> NilAny, Result |-> NilSlice] }

QueryConfigs == { [QueryModelZero EXCEPT !.NameOrToken = StringValue(n)] :
                    n \in {"my_cool_endpoint", "tok-e"} }

-----------------------------------------------------------------------------
(* Spec: the handlers of one instance, driven by the host *)

ZeroModel(k) ==
    CASE k = "source"   -> SourceModelZero
      [] k = "endpoint" -> EndpointModelZero
      [] OTHER          -> QueryModelZero

\* Persisted state: nothing, or a Record.
Absent(k)    == [exists |-> FALSE, rec |-> ZeroModel(k)]
Present(rec) == [exists |-> TRUE, rec |-> rec]

\* A request of the host: the operation and the Record the handler loads (the
\* plan of Create and Update, the prior state of Read and Delete, the
\* configuration of the data source).
Request(op, input) == [op |-> op, input |-> input]
NoRequest(k) == Request("none", ZeroModel(k))

NoOp(k) ==
    [op |-> "none", input |-> ZeroModel(k), prior |-> Absent(k), resps |-> <<>>,
     calls |-> <<>>, sent |-> <<>>, diags |-> <<>>, data |-> ZeroModel(k),
     panic |-> FALSE, set |-> FALSE]

\* The record of a handler invocation: the Record it loaded, the persisted
\* state before it, the responses its calls received, and what the handler did.
Invocation(resps, res) ==
    [op |-> req.op, input |-> req.input, prior |-> state,
     resps |-> SubSeq(resps, 1, Len(res.calls)),
     calls |-> res.calls, sent |-> res.sent, diags |-> res.diags,
     data |-> res.data, panic |-> res.panic, set |-> res.set]

\* The host keeps the state a handler wrote with State.Set, and the prior
\* state otherwise.
Saved(res) == IF res.set THEN Present(res.data) ELSE state

\* The host drops the state after a Delete without error.
Removed(res) == IF ~res.panic /\ ~HasError(res.diags) THEN Absent(kind) ELSE state

\* The plan of an Update: id carries UseStateForUnknown, so the host plans
\* the id of the prior state.
UseStateForUnknown(plan) == [plan EXCEPT !.Id = state.rec.Id]

\* The requests the host may send for the instance.
Requests ==
    CASE kind = "source" ->
            IF state.exists
            THEN {Request("Read", state.rec), Request("Delete", state.rec)}
                 \cup { Request("Update", UseStateForUnknown(plan)) :
                          plan \in SourcePlans }
            ELSE { Request("Create", plan) : plan \in SourcePlans }
      [] kind = "endpoint" ->
            IF state.exists
            THEN {Request("Read", state.rec), Request("Delete", state.rec)}
                 \cup { Request("Update", UseStateForUnknown(plan)) :
                          plan \in EndpointPlans }
            ELSE { Request("Create", plan) : plan \in EndpointPlans }
      [] OTHER -> { Request("Query", config) : config \in QueryConfigs }

NoConv == rawIn = GoNil /\ convPc = "idle" /\ typed = NoTyped /\ encoded = GoNil
NoMap  == mapIn = [fn |-> "none"] /\ mapPc = "idle" /\ mapOut = [fn |-> "none"]
NoConc == client = "nil" /\ inst = <<>> /\ locals = <<>>

Init ==
    /\ kind \in {"source", "endpoint", "query"}
    /\ state = Absent(kind)
    /\ req = NoRequest(kind)
    /\ last = NoOp(kind)
    /\ NoConv /\ NoMap /\ NoConc

\* The host sends the next request once the previous one has returned.
HostCall ==
    /\ req.op = "none"
    /\ req' \in Requests
    /\ last' = NoOp(kind)
    /\ UNCHANGED <<kind, state, convVars, mapVars, concVars>>

\* What every handler action does on return; removes says that the handler is
\* a Delete.
Return(resps, res, removes) ==
    /\ last' = Invocation(resps, res)
    /\ state' = IF removes THEN Removed(res) ELSE Saved(res)
    /\ req' = NoRequest(kind)
    /\ UNCHANGED <<kind, convVars, mapVars, concVars>>

SourceCreate ==
    /\ kind = "source" /\ req.op = "Create"
    /\ \E resp \in Responses(201, SourceBodies) :
         Return(<<resp>>, SourceResourceCreate(req.input, resp), FALSE)

SourceRead ==
    /\ kind = "source" /\ req.op = "Read"
    /\ \E resp \in Responses(200, SourceBodies) :
         Return(<<resp>>, SourceResourceRead(req.input, resp), FALSE)

SourceUpdate ==
    /\ kind = "source" /\ req.op = "Update"
    /\ \E resp \in Responses(200, {}), resp2 \in Responses(200, SourceBodies) :
         Return(<<resp, resp2>>, SourceResourceUpdate(req.input, resp, resp2), FALSE)

SourceDelete ==
    /\ kind = "source" /\ req.op = "Delete"
    /\ \E resp \in Responses(204, {}) :
         Return(<<resp>>, SourceResourceDelete(req.input, resp), TRUE)

EndpointCreate ==
    /\ kind = "endpoint" /\ req.op = "Create"
    /\ \E resp \in Responses(201, EndpointBodies) :
         Return(<<resp>>, EndpointResourceCreate(req.input, resp), FALSE)

EndpointRead ==
    /\ kind = "endpoint" /\ req.op = "Read"
    /\ \E resp \in Responses(200, EndpointBodies) :
         Return(<<resp>>, EndpointResourceRead(req.input, resp), FALSE)

EndpointUpdate ==
    /\ kind = "endpoint" /\ req.op = "Update"
    /\ \E resp \in Responses(200, EndpointBodies) :
         Return(<<resp>>, EndpointResourceUpdate(req.input, resp), FALSE)

EndpointDelete ==
    /\ kind = "endpoint" /\ req.op = "Delete"
    /\ \E resp \in Responses(204, {}) :
         Return(<<resp>>, EndpointResourceDelete(req.input, resp), TRUE)

Query ==
    /\ kind = "query" /\ req.op = "Query"
    /\ \E resp \in Responses(200, QueryBodies) :
         Return(<<resp>>, EndpointQueryDataSourceRead(req.input, resp), FALSE)

Next ==
    \/ HostCall
    \/ SourceCreate \/ SourceRead \/ SourceUpdate \/ SourceDelete
    \/ EndpointCreate \/ EndpointRead \/ EndpointUpdate \/ EndpointDelete
    \/ Query

Spec == Init /\ [][Next]_vars

\* Spec stays put while the other specifications run.
NoCtl == kind = "query" /\ state = Absent("query") /\ req = NoRequest("query")
         /\ last = NoOp("query")

-----------------------------------------------------------------------------
(* SpecConv: the conversion engine on every bounded input *)

InitConv ==
    /\ rawIn \in GoValues
    /\ convPc = "input" /\ typed = NoTyped /\ encoded = GoNil
    /\ NoMap /\ NoCtl /\ NoConc

NextConv ==
    \/ Decode /\ UNCHANGED <<mapVars, ctlVars, concVars>>
    \/ Encode /\ UNCHANGED <<mapVars, ctlVars, concVars>>

SpecConv == InitConv /\ [][NextConv]_vars

-----------------------------------------------------------------------------
(* SpecMap: the four mapper functions on every bounded input *)

MapperInputs ==
    { [fn |-> "sourceModelToApiSchema", data |-> d] : d \in SourceRecords }
    \cup { [fn |-> "endpointResourcetoApiSchema", data |-> d] : d \in EndpointRecords }
    \cup { [fn |-> "sourceSchemaToModel", result |-> Ptr(b), data |-> d] :
             b \in SourceBodies, d \in {SourceBasePlan, SourceFullPlan} }
    \cup { [fn |-> "endpointApiSchemaToModel", result |-> Ptr(b), data |-> d] :
             b \in EndpointBodies, d \in {EndpointBasePlan, EndpointFullPlan} }

\* Records sent through a mapper and back.
RoundTripInputs ==
    { [fn |-> "sourceRoundTrip", data |-> d] : d \in SourceRecords }
    \cup { [fn |-> "endpointRoundTrip", data |-> d] : d \in EndpointRecords }

InitMap ==
    /\ mapIn \in MapperInputs \cup RoundTripInputs
    /\ mapPc = "input" /\ mapOut = [fn |-> "none"]
    /\ NoConv /\ NoCtl /\ NoConc

Mapped(out) ==
    /\ mapOut' = out
    /\ mapPc' = "mapped"
    /\ UNCHANGED <<mapIn, convVars, ctlVars, concVars>>

SourceToWire ==
    /\ mapPc = "input" /\ mapIn.fn = "sourceModelToApiSchema"
    /\ LET r == sourceModelToApiSchema(mapIn.data)
       IN  Mapped([fn |-> mapIn.fn, body |-> r.body, diags |-> r.diags])

EndpointToWire ==
    /\ mapPc = "input" /\ mapIn.fn = "endpointResourcetoApiSchema"
    /\ Mapped([fn |-> mapIn.fn, body |-> endpointResourcetoApiSchema(mapIn.data),
               diags |-> <<>>])

SourceFromWire ==
    /\ mapPc = "input" /\ mapIn.fn = "sourceSchemaToModel"
    /\ LET r == sourceSchemaToModel(mapIn.result, mapIn.data)
       IN  Mapped([fn |-> mapIn.fn, data |-> r.data, diags |-> r.diags,
                   panic |-> r.panic])

EndpointFromWire ==
    /\ mapPc = "input" /\ mapIn.fn = "endpointApiSchemaToModel"
    /\ LET r == endpointApiSchemaToModel(mapIn.result, mapIn.data)
       IN  Mapped([fn |-> mapIn.fn, data |-> r.data, diags |-> r.diags,
                   panic |-> r.panic])

\* A collaborator that answers with the wire schema it was sent, adding the
\* id and, where none was sent, the token.
EchoSource(body) ==
    Ptr([body EXCEPT !.Id = Ptr(GoIntOf(0, 42)),
                     !.Token = IF body.Token.nil THEN Ptr("tok-1") ELSE @])
EchoEndpoint(body) ==
    Ptr([body EXCEPT !.Id = Ptr(GoIntOf(0, 1)),
                     !.Token = IF body.Token.nil THEN Ptr("tok-e") ELSE @])

\* What is left of data once the body built from it has come back: sent is
\* what the mapper to the wire gave, back the mapper from the wire.
RoundTripped(fn, sent, back) ==
    IF HasError(sent.diags)
    THEN [fn |-> fn, data |-> mapIn.data, diags |-> sent.diags, panic |-> FALSE]
    ELSE [fn |-> fn, data |-> back.data, diags |-> back.diags, panic |-> back.panic]

\* createSource with an echoing collaborator: sourceModelToApiSchema, the
\* call, sourceSchemaToModel.
SourceEchoed(sent) ==
    RoundTripped(mapIn.fn, sent, sourceSchemaToModel(EchoSource(sent.body), mapIn.data))

SourceRoundTrip ==
    /\ mapPc = "input" /\ mapIn.fn = "sourceRoundTrip"
    /\ Mapped(SourceEchoed(sourceModelToApiSchema(mapIn.data)))

EndpointEchoed(body) ==
    RoundTripped(mapIn.fn, [diags |-> <<>>],
                 endpointApiSchemaToModel(EchoEndpoint(body), mapIn.data))

EndpointRoundTrip ==
    /\ mapPc = "input" /\ mapIn.fn = "endpointRoundTrip"
    /\ Mapped(EndpointEchoed(endpointResourcetoApiSchema(mapIn.data)))

NextMap ==
    \/ SourceToWire \/ EndpointToWire \/ SourceFromWire \/ EndpointFromWire
    \/ SourceRoundTrip \/ EndpointRoundTrip

SpecMap == InitMap /\ [][NextMap]_vars

-----------------------------------------------------------------------------
(* SpecConc: two resource instances of one kind, reconciled concurrently *)

Instances == {1, 2}
Other(i) == 3 - i

\* A package-level `data` would be one variable for every invocation.
DataShared(i) == 1

\* `var data SourceResourceModel` is a local of the handler: every invocation
\* has its own.
DataOf(i) == i

ConcPlans(k) ==
    IF k = "source" THEN {SourceExamplePlan, SourceConfiguredPlan}
    ELSE {EndpointExamplePlan, EndpointConfiguredPlan}

ConcBodies(k) ==
    IF k = "source" THEN {SourceExampleBody, SourceFullBody}
    ELSE {EndpointExampleBody} \cup {b \in EndpointBodies : b.Name = "renamed"}

ConcFailures ==
    {TransportError("connection refused"), HttpResponse(500, "internal error", NilJson)}

\* The responses the collaborator may give to the calls of operation op: to
\* the only call, or to the update call and the read that follows it.
ConcResponses(k, op) ==
    LET decoded(st) == { HttpResponse(st, "json", Ptr(b)) : b \in ConcBodies(k) }
        none == TransportError("connection refused")
    IN  CASE op = "Create" -> (ConcFailures \cup decoded(201)) \X {none}
          [] op = "Read"   -> (ConcFailures \cup decoded(200)) \X {none}
          [] op = "Delete" -> (ConcFailures \cup {HttpResponse(204, "", NilJson)}) \X {none}
          [] k = "source"  -> (ConcFailures \cup {HttpResponse(200, "", NilJson)})
                              \X (ConcFailures \cup decoded(200))
          [] OTHER         -> (ConcFailures \cup decoded(200)) \X {none}

NoResult(k) ==
    [diags |-> <<>>, calls |-> <<>>, sent |-> <<>>, data |-> ZeroModel(k),
     panic |-> FALSE, set |-> FALSE]

\* An instance as the host sees it: its persisted state, and the request in
\* progress with the resource object serving it (rclient is its client field).
Idle(k) ==
    [state |-> Absent(k), pc |-> "idle", op |-> "none", input |-> ZeroModel(k),
     prior |-> Absent(k), rclient |-> "nil", used |-> "nil",
     resps |-> <<TransportError(""), TransportError("")>>, res |-> NoResult(k),
     overlapped |-> FALSE]

Running(i) == inst[i].pc \in {"created", "configured", "loaded", "called"}

InitConc ==
    /\ kind \in {"source", "endpoint"}
    /\ state = Absent(kind) /\ req = NoRequest(kind) /\ last = NoOp(kind)
    /\ client = "nil"
    /\ inst = [i \in Instances |-> Idle(kind)]
    /\ locals = [i \in Instances |-> ZeroModel(kind)]
    /\ NoConv /\ NoMap

\* logflareProvider.Configure builds the client and hands it to the resources.
ProviderConfigure ==
    /\ client = "nil"
    /\ client' = "client"
    /\ UNCHANGED <<inst, locals, convVars, mapVars, ctlVars>>

\* The requests the host may send for instance i.
ConcRequests(i) ==
    IF inst[i].state.exists
    THEN {Request("Read", inst[i].state.rec), Request("Delete", inst[i].state.rec)}
         \cup { Request("Update", [plan EXCEPT !.Id = inst[i].state.rec.Id]) :
                  plan \in ConcPlans(kind) }
    ELSE { Request("Create", plan) : plan \in ConcPlans(kind) }

\* The host starts a request for instance i: the factory returns a fresh
\* resource object, whose client field is nil.
Begin(i) ==
    /\ client # "nil"
    /\ inst[i].pc \in {"idle", "returned"}
    /\ \E r \in ConcRequests(i) :
         inst' = [inst EXCEPT
                    ![i] = [Idle(kind) EXCEPT
                              !.state = inst[i].state, !.prior = inst[i].state,
                              !.pc = "created", !.op = r.op, !.input = r.input,
                              !.overlapped = Running(Other(i))],
                    ![Other(i)].overlapped = @ \/ Running(Other(i))]
    /\ UNCHANGED <<client, locals, convVars, mapVars, ctlVars>>

\* Configure of the resource object: r.client = client.
ConfigureResource(i) ==
    /\ inst[i].pc = "created"
    /\ inst' = [inst EXCEPT ![i].pc = "configured", ![i].rclient = client]
    /\ UNCHANGED <<client, locals, convVars, mapVars, ctlVars>>

\* req.Plan.Get(ctx, &data), or req.State.Get(ctx, &data) in Read and Delete.
Get(i) ==
    /\ inst[i].pc = "configured"
    /\ locals' = [locals EXCEPT ![DataOf(i)] = inst[i].input]
    /\ inst' = [inst EXCEPT ![i].pc = "loaded"]
    /\ UNCHANGED <<client, convVars, mapVars, ctlVars>>

\* createSource(ctx, &data, r.client) and its siblings: the calls go out
\* through the client of the resource object, and the response is mapped
\* into data.
Call(i) ==
    /\ inst[i].pc = "loaded"
    /\ \E rs \in ConcResponses(kind, inst[i].op) :
         LET res == Handle(kind, inst[i].op, locals[DataOf(i)], rs[1], rs[2])
         IN  /\ inst' = [inst EXCEPT ![i].pc = "called", ![i].resps = rs,
                                     ![i].res = [res EXCEPT !.data = ZeroModel(kind)],
                                     ![i].used = inst[i].rclient]
             /\ locals' = [locals EXCEPT ![DataOf(i)] = res.data]
    /\ UNCHANGED <<client, convVars, mapVars, ctlVars>>

\* resp.State.Set(ctx, &data) when no error was reported; the host drops the
\* state after a Delete without error and keeps the prior state otherwise.
Set(i) ==
    /\ inst[i].pc = "called"
    /\ LET res == inst[i].res
           ok  == ~res.panic /\ ~HasError(res.diags)
       IN  inst' = [inst EXCEPT
                      ![i].pc = "returned",
                      ![i].state = IF inst[i].op = "Delete"
                                   THEN IF ok THEN Absent(kind) ELSE @
                                   ELSE IF res.set THEN Present(locals[DataOf(i)])
                                   ELSE @]
    /\ UNCHANGED <<client, locals, convVars, mapVars, ctlVars>>

NextConc ==
    \/ ProviderConfigure
    \/ \E i \in Instances : Begin(i)
    \/ \E i \in Instances : ConfigureResource(i)
    \/ \E i \in Instances : Get(i)
    \/ \E i \in Instances : Call(i)
    \/ \E i \in Instances : Set(i)

SpecConc == InitConc /\ [][NextConc]_vars

-----------------------------------------------------------------------------
(* Properties *)

\* C1 (SpecConv).  Round trip: for every Raw Value in which no list contains
\* elements of differing decoded types, encoding the decoded value gives the
\* Raw Value back.
C1_RoundTrip ==
    (convPc = "encoded" /\ IsRawValue(rawIn) /\ Homogeneous(rawIn))
        => encoded = rawIn

\* A map holding a two-element list of integers has gone through decode and
\* encode and has come back.
C1_Witness ==
    /\ convPc = "encoded"
    /\ rawIn = GoMap([key \in {"a"} |-> GoSlice(<<GoInt64(1), GoInt64(1)>>)])
    /\ encoded = rawIn

\* The elements of the list handed to the engine decode to differing types.
MixedList(v) ==
    /\ v.k = "slice"
    /\ \E n1, n2 \in 1..Len(v.elems) :
           convertInterfaceToValue(v.elems[n1]).typ
             # convertInterfaceToValue(v.elems[n2]).typ

\* C2 (SpecConv).  Last-wins list typing: decoding a list whose elements decode
\* to differing types gives a list declared with the type of the last element
\* that stores every element with its own decoded value.
C2_LastWinsKeepsElements ==
    (convPc = "decoded" /\ MixedList(rawIn)) =>
        /\ typed.typ =
             ListType(convertInterfaceToValue(rawIn.elems[Len(rawIn.elems)]).typ)
        /\ typed.val.state = "known"
        /\ Len(typed.val.elems) = Len(rawIn.elems)
        /\ \A n \in 1..Len(rawIn.elems) :
               typed.val.elems[n] = convertInterfaceToValue(rawIn.elems[n]).val

\* The handler that just returned is op, and its n-th call was answered.
Returned(op) == last.op = op
Answered(n)  == Len(last.resps) >= n /\ last.resps[n].err = ""

\* The diagnostics are exactly one error whose message renders the status and
\* the body of the response r.
OneErrorWithStatusAndBody(diags, r) ==
    /\ Len(diags) = 1
    /\ diags[1].severity = "error"
    /\ {"status", "body"} \subseteq diags[1].args
    /\ diags[1].status = r.status
    /\ diags[1].body = r.body

\* C3 (Spec).  An Update whose update call is answered with a non-2xx status
\* returns exactly one error diagnostic that renders the status and the body,
\* and persisted state is what it was before.
C3_UpdateRejected ==
    (/\ Returned("Update") /\ Answered(1)
     /\ (last.resps[1].status < 200 \/ last.resps[1].status >= 300))
        => /\ OneErrorWithStatusAndBody(last.diags, last.resps[1])
           /\ state = last.prior

\* An endpoint Update was answered 500 "internal error".
C3_Witness ==
    /\ kind = "endpoint" /\ Returned("Update") /\ Answered(1)
    /\ last.resps[1].status = 500 /\ last.resps[1].body = "internal error"
    /\ OneErrorWithStatusAndBody(last.diags, last.resps[1])
    /\ state.exists

OneWarning(diags) == Len(diags) = 1 /\ diags[1].severity = "warning"

\* C5 (Spec).  Read of an endpoint whose token is null returns exactly one
\* warning, issues no outbound call and leaves persisted state unchanged.
C5_EndpointReadNullToken ==
    (kind = "endpoint" /\ Returned("Read") /\ IsNull(last.input.Token))
        => /\ OneWarning(last.diags)
           /\ last.calls = <<>>
           /\ state = last.prior

\* C6 (Spec).  Read of a source whose token is null returns exactly one
\* warning, issues no outbound call and leaves persisted state unchanged.
C6_SourceReadNullToken ==
    (kind = "source" /\ Returned("Read") /\ IsNull(last.input.Token))
        => /\ OneWarning(last.diags)
           /\ last.calls = <<>>
           /\ state = last.prior

\* Read of a source whose stored token is null has returned its warning.
C6_Witness ==
    /\ kind = "source" /\ Returned("Read") /\ IsNull(last.input.Token)
    /\ last.prior.exists /\ OneWarning(last.diags)

\* C7 (Spec).  Delete on a Record whose token is null returns no diagnostic
\* and issues no outbound call.
C7_DeleteNullToken ==
    (Returned("Delete") /\ IsNull(last.input.Token))
        => last.diags = <<>> /\ last.calls = <<>>

\* Delete of a source whose stored token is null has returned.
C7_Witness ==
    /\ kind = "source" /\ Returned("Delete") /\ IsNull(last.input.Token)
    /\ last.prior.exists /\ last.diags = <<>>

\* A Record field holds the value of a wire field: null for a nil pointer,
\* otherwise the known value the pointer points to.
HoldsString(x, p) == IF p.nil THEN IsNull(x) ELSE x = StringValue(p.v)
HoldsBool(x, p)   == IF p.nil THEN IsNull(x) ELSE x = BoolValue(p.v)
HoldsInt32(x, p)  ==
    IF p.nil THEN IsNull(x) ELSE x.state = "known" /\ GoIntOf(0, x.i32) = p.v
HoldsId(x, p)     == ~p.nil /\ x.state = "known" /\ x.i = p.v

\* The identity and hybrid scalar fields of Record rec hold the values of B.
SourceHolds(rec, B) ==
    /\ HoldsId(rec.Id, B.Id)
    /\ HoldsString(rec.Token, B.Token)
    /\ rec.Name = StringValue(B.Name)
    /\ HoldsInt32(rec.ApiQuota, B.ApiQuota)
    /\ HoldsInt32(rec.BigqueryTableTtl, B.BigqueryTableTtl)
    /\ HoldsString(rec.BqTableId, B.BqTableId)
    /\ HoldsString(rec.CustomEventMessageKeys, B.CustomEventMessageKeys)
    /\ HoldsBool(rec.DefaultIngestBackendEnabled, B.DefaultIngestBackendEnabled)
    /\ HoldsBool(rec.Favorite, B.Favorite)
    /\ HoldsString(rec.SlackHookUrl, B.SlackHookUrl)
    /\ HoldsString(rec.WebhookNotificationUrl, B.WebhookNotificationUrl)
EndpointHolds(rec, B) ==
    /\ HoldsId(rec.Id, B.Id)
    /\ HoldsString(rec.Token, B.Token)
    /\ rec.Name = StringValue(B.Name)
    /\ HoldsInt32(rec.CacheDurationSeconds, B.CacheDurationSeconds)
    /\ HoldsBool(rec.EnableAuth, B.EnableAuth)
    /\ HoldsInt32(rec.MaxLimit, B.MaxLimit)
    /\ HoldsInt32(rec.ProactiveRequeryingSeconds, B.ProactiveRequeryingSeconds)
    /\ HoldsBool(rec.Sandboxable, B.Sandboxable)

\* The success body of the response carries an id and, for a source,
\* notifications of the declared shape (or none).
WellFormedBody(B) ==
    /\ ~B.Id.nil
    /\ kind = "source" =>
          (B.Notifications.nil \/ UnmarshalNotification(B.Notifications.v).ok)

\* C8 (Spec).  A Create answered 201 with a success body B returns no
\* diagnostic and writes to state a Record whose identity and hybrid fields
\* hold the values of B.
C8_CreateHoldsBody ==
    (/\ kind \in {"source", "endpoint"}
     /\ Returned("Create") /\ Answered(1)
     /\ last.resps[1].status = 201 /\ ~last.resps[1].json.nil
     /\ WellFormedBody(last.resps[1].json.v))
        => /\ last.diags = <<>>
           /\ ~last.panic
           /\ state = Present(last.data)
           /\ IF kind = "source"
              THEN SourceHolds(state.rec, last.resps[1].json.v)
              ELSE EndpointHolds(state.rec, last.resps[1].json.v)

\* A wire pointer field carries exactly the value of a Record field: omitted
\* (nil) when the field is null, the same value when the field is known.
OmitsOrCopiesString(x, p) ==
    /\ IsNull(x) => p.nil
    /\ x.state = "known" => p = Ptr(x.s)
OmitsOrCopiesBool(x, p) ==
    /\ IsNull(x) => p.nil
    /\ x.state = "known" => p = Ptr(x.b)
OmitsOrCopiesInt32(x, p) ==
    /\ IsNull(x) => p.nil
    /\ x.state = "known" => p = Ptr(GoIntOf(0, x.i32))
\* A free-form field: omitted when null, the decoded mapping when its text is
\* a JSON object.
OmitsOrCopiesJson(x, p) ==
    /\ IsNull(x) => p.nil
    /\ (x.state = "known" /\ x.s \in {"{}"}) => p = Ptr("map[]")
    /\ (x.state = "known" /\ x.s \in {"{\"a\":1}", "{ \"a\": 1 }"}) => p = Ptr("map[a:1]")
\* A member of the notifications map: absent when the sub-field is null, the
\* same value when it is known.
OmitsOrCopiesMember(x, m, key) ==
    /\ IsNull(x) => key \notin DOMAIN m
    /\ x.state = "known" =>
          /\ key \in DOMAIN m
          /\ m[key] = CASE x.ty = StringType -> GoString(x.s)
                        [] x.ty = BoolType   -> GoBool(x.b)
                        [] OTHER -> GoSlice([n \in 1..Len(x.elems) |->
                                                 GoString(x.elems[n].s)])
OmitsOrCopiesNotifications(x, p) ==
    /\ IsNull(x) => p.nil
    /\ x.state = "known" =>
          /\ ~p.nil
          /\ \A key \in DOMAIN NotificationAttributeTypes :
                 OmitsOrCopiesMember(x.attrs[key], p.v, key)

C10_NoServerComputedSent ==
    \A n \in 1..Len(last.sent) :
        LET w == last.sent[n]
        IN  /\ w.Id.nil
            /\ w.Token.nil
            /\ kind = "source" =>
                  /\ w.PublicToken.nil /\ w.HasRejectedEvents.nil
                  /\ w.InsertedAt.nil /\ w.UpdatedAt.nil

\* A Read addressed with a token was answered and ended without an error.
ReadSucceeded ==
    /\ kind \in {"source", "endpoint"}
    /\ Returned("Read") /\ ~IsNull(last.input.Token)
    /\ Answered(1) /\ ~last.panic /\ ~HasError(last.diags)

\* C11 (Spec), as claimed.  A successful Read leaves every user-supplied field
\* (name; query and description of an endpoint) as the prior Record had it.
C11_ReadKeepsUserSupplied ==
    ReadSucceeded =>
        /\ state.exists
        /\ state.rec.Name = last.prior.rec.Name
        /\ kind = "endpoint" =>
              /\ state.rec.Query = last.prior.rec.Query
              /\ state.rec.Description = last.prior.rec.Description

\* C11 (Spec), amended.  A successful Read overwrites the user-supplied fields
\* too: the Record written to state holds the id, the token, the name and,
\* for an endpoint, the query and the description of the response.
C11_ReadOverwritesUserSupplied ==
    ReadSucceeded =>
        LET B == last.resps[1].json.v
        IN  /\ state = Present(last.data)
            /\ HoldsId(state.rec.Id, B.Id)
            /\ HoldsString(state.rec.Token, B.Token)
            /\ state.rec.Name = StringValue(B.Name)
            /\ kind = "endpoint" =>
                  /\ state.rec.Query = StringValue(B.Query)
                  /\ HoldsString(state.rec.Description, B.Description)

\* A source named "my-cool-source" was read while the remote one is called
\* "renamed": the Record now carries the remote name.
C11_Witness ==
    /\ kind = "source" /\ ReadSucceeded
    /\ last.prior.rec.Name = StringValue("my-cool-source")
    /\ last.resps[1].json.v.Name = "renamed"
    /\ state.rec.Name = StringValue("renamed")

\* The free-form field of a desired Record: metrics of a source,
\* source_mapping of an endpoint.
FreeFormField(rec) == IF kind = "source" THEN rec.Metrics ELSE rec.SourceMapping

\* The field holds text that does not decode into a generic mapping.
Undecodable(x) == x.state = "known" /\ ~JsonUnmarshalMap(x.s).ok

\* C12 (Spec).  A Create or Update whose desired Record holds a free-form
\* field that cannot be decoded into a generic mapping returns an error
\* diagnostic and issues no outbound call.
C12_MalformedFreeFormAborts ==
    (/\ kind \in {"source", "endpoint"}
     /\ Returned("Create") \/ Returned("Update")
     /\ Undecodable(FreeFormField(last.input)))
        => HasError(last.diags) /\ last.calls = <<>>

\* The diagnostics are exactly one error.
OneError(diags) == Len(diags) = 1 /\ diags[1].severity = "error"

\* C13 (Spec).  A Create whose response carries no decoded success body,
\* whatever its status, returns exactly one error diagnostic, writes nothing
\* to state and does not crash.
C13_CreateWithoutBodyFails ==
    (/\ kind \in {"source", "endpoint"}
     /\ Returned("Create") /\ Answered(1)
     /\ last.resps[1].json.nil)
        => /\ ~last.panic
           /\ OneError(last.diags)
           /\ ~last.set /\ state = last.prior

\* C14 (Spec).  A Delete addressed with a token whose call is answered
\* returns no diagnostic if and only if the status is 204; with any other
\* status, 200 included, it returns exactly one error diagnostic.
C14_DeleteNeeds204 ==
    (/\ kind \in {"source", "endpoint"}
     /\ Returned("Delete") /\ ~IsNull(last.input.Token) /\ Answered(1))
        => /\ last.diags = <<>> <=> last.resps[1].status = 204
           /\ last.resps[1].status # 204 => OneError(last.diags)

\* The delete call of a source was answered 200, and Delete returned one
\* error and the Record stayed in state.
C14_Witness ==
    /\ kind = "source" /\ Returned("Delete") /\ ~IsNull(last.input.Token)
    /\ Answered(1) /\ last.resps[1].status = 200
    /\ OneError(last.diags) /\ state.exists

\* C15 (Spec).  When an outbound call of a handler fails with a transport
\* error, the handler returns exactly one error diagnostic, that call is its
\* last one, and persisted state is what it was before.
C15_TransportErrorEnds ==
    \A n \in 1..Len(last.resps) :
        last.resps[n].err # "" =>
            /\ OneError(last.diags)
            /\ last.diags[1].err = last.resps[n].err
            /\ Len(last.calls) = n
            /\ ~last.set /\ state = last.prior

\* The update call of a source succeeded and the show call that follows it
\* failed in transport: one error, no third call, state as before.
C15_Witness ==
    /\ kind = "source" /\ Returned("Update")
    /\ Len(last.resps) = 2 /\ last.resps[2].err = "connection refused"
    /\ OneError(last.diags) /\ state = last.prior /\ state.exists

\* A wire field carries the value of a Record field that is set.
SendsString(x, p) == x.state = "known" => p = Ptr(x.s)
SendsBool(x, p)   == x.state = "known" => p = Ptr(x.b)
SendsInt32(x, p)  == x.state = "known" => p = Ptr(GoIntOf(0, x.i32))
\* A free-form field whose text is a JSON object is sent as that mapping.
SendsJson(x, p)   ==
    /\ (x.state = "known" /\ x.s = "{}") => p = Ptr("map[]")
    /\ (x.state = "known" /\ x.s \in {"{\"a\":1}", "{ \"a\": 1 }"})
           => p = Ptr("map[a:1]")
SendsNotifications(x, p) ==
    x.state = "known" =>
        /\ ~p.nil
        /\ \A key \in DOMAIN NotificationAttributeTypes :
               x.attrs[key].state = "known" =>
                   OmitsOrCopiesMember(x.attrs[key], p.v, key)

\* The wire schema w carries every user-controllable field that is set in
\* the source Record d.
SourceSendsAll(d, w) ==
    /\ w.Name = d.Name.s
    /\ SendsInt32(d.ApiQuota, w.ApiQuota)
    /\ SendsInt32(d.BigqueryTableTtl, w.BigqueryTableTtl)
    /\ SendsString(d.BqTableId, w.BqTableId)
    /\ SendsString(d.CustomEventMessageKeys, w.CustomEventMessageKeys)
    /\ SendsBool(d.DefaultIngestBackendEnabled, w.DefaultIngestBackendEnabled)
    /\ SendsBool(d.Favorite, w.Favorite)
    /\ SendsJson(d.Metrics, w.Metrics)
    /\ SendsNotifications(d.Notifications, w.Notifications)
    /\ SendsString(d.SlackHookUrl, w.SlackHookUrl)
    /\ SendsString(d.WebhookNotificationUrl, w.WebhookNotificationUrl)

\* The same for an endpoint.
EndpointSendsAll(d, w) ==
    /\ w.Name = d.Name.s /\ w.Query = d.Query.s
    /\ SendsInt32(d.CacheDurationSeconds, w.CacheDurationSeconds)
    /\ SendsString(d.Description, w.Description)
    /\ SendsBool(d.EnableAuth, w.EnableAuth)
    /\ SendsInt32(d.MaxLimit, w.MaxLimit)
    /\ SendsInt32(d.ProactiveRequeryingSeconds, w.ProactiveRequeryingSeconds)
    /\ SendsBool(d.Sandboxable, w.Sandboxable)
    /\ SendsJson(d.SourceMapping, w.SourceMapping)

QueryAnsweredRows ==
    /\ kind = "query" /\ Returned("Query") /\ Answered(1)
    /\ ~last.resps[1].json.nil
    /\ last.resps[1].json.v.Error.nil
    /\ ~last.resps[1].json.v.Result.nil

\* The typed entry tv is the decoded form of the row: an object with the
\* keys of the row, each holding the decoded value of its member.
DecodedRow(tv, row) ==
    /\ tv.ty = DynamicType /\ tv.state = "known"
    /\ tv.inner.state = "known"
    /\ DOMAIN tv.inner.attrs = DOMAIN row
    /\ \A key \in DOMAIN row :
           tv.inner.attrs[key] = convertInterfaceToValue(row[key]).val

\* C17 (Spec).  The Read of the query data source, answered with n result
\* rows, returns no error diagnostic and stores a Result that is a list of n
\* entries in the order returned, the i-th being the decoded i-th row with
\* every key of that row.
C17_QueryReturnsRows ==
    QueryAnsweredRows =>
        LET rows == last.resps[1].json.v.Result.v
            res  == last.data.Result
        IN  /\ ~last.panic /\ ~HasError(last.diags)
            /\ state = Present(last.data)
            /\ res.state = "known" /\ res.inner.state = "known"
            /\ Len(res.inner.elems) = Len(rows)
            /\ \A n \in 1..Len(rows) : DecodedRow(res.inner.elems[n], rows[n])

\* The same execution with other values in the sensitive places: a string
\* field, a pointer field of a decoded body, the raw body, the whole Record
\* and the whole response.
OtherSecret == "s3cret"
VaryField(x) == IF x.state = "known" THEN StringValue(OtherSecret) ELSE x
VaryPtr(p)   == IF p.nil THEN p ELSE Ptr(OtherSecret)
VaryBody(b)  == IF b = EchoBody("tok-1") THEN EchoBody(OtherSecret) ELSE b
VaryRecord(k, rec) ==
    CASE k = "source" ->
            [rec EXCEPT !.Token = VaryField(@),
                        !.PublicToken = VaryField(@),
                        !.SlackHookUrl = VaryField(@),
                        !.WebhookNotificationUrl = VaryField(@)]
      [] k = "endpoint" -> [rec EXCEPT !.Token = VaryField(@)]
      [] OTHER -> [rec EXCEPT !.NameOrToken = VaryField(@)]
VaryDecoded(k, js) ==
    CASE js.nil -> js
      [] k = "source" ->
            Ptr([js.v EXCEPT !.Token = VaryPtr(@),
                             !.PublicToken = VaryPtr(@),
                             !.SlackHookUrl = VaryPtr(@),
                             !.WebhookNotificationUrl = VaryPtr(@)])
      [] k = "endpoint" -> Ptr([js.v EXCEPT !.Token = VaryPtr(@)])
      [] OTHER -> js
VaryResponse(k, r) ==
    [r EXCEPT !.body = VaryBody(@), !.json = VaryDecoded(k, @)]

\* The n-th response of the invocation that just returned, varied.
VariedResponse(n) ==
    IF Len(last.resps) >= n THEN VaryResponse(kind, last.resps[n])
    ELSE TransportError("connection refused")

\* C18 (Spec).  The diagnostics of a handler do not depend on a sensitive
\* value: run again on the same Record and the same responses with other
\* values for token, public_token, slack_hook_url, webhook_notification_url
\* and name_or_token, in the Record and in the responses, the handler returns
\* the same diagnostics.
C18_DiagnosticsHideSecrets ==
    last.op # "none" =>
        Handle(kind, last.op, VaryRecord(kind, last.input),
               VariedResponse(1), VariedResponse(2)).diags = last.diags

\* The typed value tv decoded from v carries the string default wherever v
\* carries no type information: a null is a String-typed null, an empty list
\* a known empty list of String.  Inside a list that decoded to an unknown
\* value the elements are gone, and the default shows in the declared element
\* type when the last element is a null or an empty list.
RECURSIVE StringDefaults(_, _)
StringDefaults(v, tv) ==
    CASE v.k = "nil"   -> tv = StringNull /\ TypeOf(tv) = StringType
      [] v.k = "slice" /\ Len(v.elems) = 0 ->
            /\ TypeOf(tv) = ListType(StringType)
            /\ tv.state = "known" /\ Len(tv.elems) = 0
      [] v.k = "slice" /\ Len(v.elems) > 0 ->
            IF tv.state = "known"
            THEN /\ Len(tv.elems) = Len(v.elems)
                 /\ \A n \in 1..Len(v.elems) : StringDefaults(v.elems[n], tv.elems[n])
            ELSE LET lastElem == v.elems[Len(v.elems)]
                 IN  /\ lastElem.k = "nil" => TypeOf(tv).elem = StringType
                     /\ lastElem = GoSlice(<<>>) =>
                            TypeOf(tv).elem = ListType(StringType)
      [] v.k = "map"   ->
            /\ tv.state = "known" /\ DOMAIN tv.attrs = DOMAIN v.m
            /\ \A key \in DOMAIN v.m : StringDefaults(v.m[key], tv.attrs[key])
      [] OTHER -> TRUE

\* C19 (SpecConv).  Decode defaults to the string type where the input carries
\* no type information: a null decodes to a null typed String and an empty
\* list to a known empty list declared with element type String, at every
\* nesting depth inside objects and lists.
C19_StringDefaults ==
    convPc \in {"decoded", "encoded"} =>
        /\ StringDefaults(rawIn, typed.val)
        /\ typed.typ = TypeOf(typed.val)

\* An object holding a list with one null and an empty list was decoded.
C19_Witness ==
    /\ convPc = "decoded"
    /\ rawIn = GoMap([key \in {"a", "b"} |->
                        IF key = "a" THEN GoSlice(<<GoNil>>) ELSE GoSlice(<<>>)])
    /\ typed.val.attrs["a"].elems = <<StringNull>>
    /\ typed.val.attrs["b"].state = "known"
    /\ TypeOf(typed.val.attrs["b"]) = ListType(StringType)

\* What operation op on input gives when it runs with nothing beside it: the
\* handler's result and the state the host keeps.
AloneState(op, prior, alone) ==
    IF op = "Delete"
    THEN IF ~alone.panic /\ ~HasError(alone.diags) THEN Absent(kind) ELSE prior
    ELSE IF alone.set THEN Present(alone.data) ELSE prior

SameAsAlone(i, alone) ==
    /\ inst[i].res.calls = alone.calls
    /\ inst[i].res.sent = alone.sent
    /\ inst[i].res.diags = alone.diags
    /\ inst[i].res.panic = alone.panic
    /\ inst[i].state = AloneState(inst[i].op, inst[i].prior, alone)

\* C20: whatever the interleaving of two operations on different instances,
\* each operation's outbound calls, Diagnostics and resulting Record equal
\* those of the same operation run alone on the same input with the same
\* responses, and every call goes out through the client handle the provider
\* was configured with, which is written once.
C20_DistinctInstancesDoNotInterfere ==
    /\ \A i \in DOMAIN inst :
         inst[i].pc = "returned" =>
           /\ inst[i].used = "client"
           /\ SameAsAlone(i, Handle(kind, inst[i].op, inst[i].input,
                                    inst[i].resps[1], inst[i].resps[2]))
    /\ \A i \in DOMAIN inst : inst[i].rclient \in {"nil", client}

\* Two operations overlapped and both returned, each leaving its own Record.
C20_Witness ==
    /\ \A i \in DOMAIN inst :
         inst[i].pc = "returned" /\ inst[i].overlapped /\ inst[i].state.exists
    /\ DOMAIN inst = Instances
    /\ inst[1].state.rec # inst[2].state.rec
    /\ inst[1].op = "Create" /\ inst[2].op = "Update"

WritesState(op) == op \in {"Create", "Read", "Update", "Query"}

\* C21: Create, Read and Update of both kinds and the data source Read write
\* the Record to persisted state only when the Diagnostics hold no error; an
\* operation that ends with an error Diagnostic leaves persisted state as it
\* was before the operation.
C21_ErrorLeavesStateAlone ==
    WritesState(last.op) =>
        /\ last.set => ~HasError(last.diags)
        /\ HasError(last.diags) => state = last.prior
        /\ state # last.prior => state = Present(last.data)

\* An Update of an existing instance whose call was answered ended with an
\* error and left the Record of the earlier Create in place.
C21_Witness ==
    /\ last.op = "Update" /\ HasError(last.diags) /\ Len(last.calls) > 0
    /\ last.resps[1].err = ""
    /\ last.prior.exists /\ state = last.prior
    /\ last.data # last.prior.rec

RecipientFields ==
    {"team_user_ids_for_email", "team_user_ids_for_schema_updates",
     "team_user_ids_for_sms"}

KnownStringList(x) ==
    /\ x.ty = ListType(StringType) /\ x.state = "known"
    /\ \A n \in 1..Len(x.elems) : x.elems[n].ty = StringType /\ x.elems[n].state = "known"

\* C22: when sourceSchemaToModel returns without error, notifications is the
\* null object if the response has none, and otherwise a known object whose
\* three recipient lists are known lists of strings, empty for a member the
\* response leaves out; a response without notifications gives no error.
C22_NotificationsDetermined ==
    (mapPc = "mapped" /\ mapOut.fn = "sourceSchemaToModel" /\ ~mapOut.panic) =>
        LET wire == mapIn.result.v.Notifications
            got  == mapOut.data.Notifications
        IN  /\ wire.nil => ~HasError(mapOut.diags)
            /\ ~HasError(mapOut.diags) =>
                  IF wire.nil THEN got = NotificationsNull
                  ELSE /\ got.state = "known"
                       /\ got.ty = ObjectType(NotificationAttributeTypes)
                       /\ \A f \in RecipientFields :
                            /\ KnownStringList(got.attrs[f])
                            /\ (f \notin DOMAIN wire.v => got.attrs[f].elems = <<>>)
                            /\ (f \in DOMAIN wire.v =>
                                  Len(got.attrs[f].elems) = Len(wire.v[f].elems))

\* A response whose notifications name one recipient list and leave the other
\* two out was mapped onto a Record that had notifications of its own.
C22_Witness ==
    /\ mapPc = "mapped" /\ mapOut.fn = "sourceSchemaToModel"
    /\ ~mapOut.panic /\ ~HasError(mapOut.diags)
    /\ ~mapIn.result.v.Notifications.nil
    /\ "team_user_ids_for_email" \in DOMAIN mapIn.result.v.Notifications.v
    /\ "team_user_ids_for_sms" \notin DOMAIN mapIn.result.v.Notifications.v
    /\ mapOut.data.Notifications.attrs["team_user_ids_for_sms"].elems = <<>>
    /\ Len(mapOut.data.Notifications.attrs["team_user_ids_for_email"].elems) = 1

\* No part of the typed value tv is unknown.
RECURSIVE Concrete(_)
Concrete(tv) ==
    CASE tv.state = "unknown" -> FALSE
      [] tv.state = "null"    -> TRUE
      [] tv.ty.tk = "List"    -> \A n \in 1..Len(tv.elems) : Concrete(tv.elems[n])
      [] tv.ty.tk = "Object"  -> \A key \in DOMAIN tv.attrs : Concrete(tv.attrs[key])
      [] tv.ty.tk = "Dynamic" -> Concrete(tv.inner)
      [] OTHER                -> TRUE

\* C23: decode is total and drops no error.  convertInterfaceToValue hands
\* its caller a value and a type and no Diagnostics, so a sub-step that
\* cannot produce a concrete value has nowhere to report: the claim holds
\* exactly when the value decoded from any Raw Value, lists of differing
\* element types included, is concrete in every part.
C23_DecodeTotalNothingDropped ==
    (convPc = "decoded" /\ IsRawValue(rawIn)) =>
        /\ TypeOf(typed.val) = typed.typ
        /\ Concrete(typed.val)

UpdateCalls == {"source.update", "endpoint.update"}

\* C24: every update call of an Update is addressed with the token that the
\* state of the instance holds, never with an empty one, also when the plan
\* carries the token as unknown.
C24_UpdateAddressedByStateToken ==
    (last.op = "Update" /\ ~IsNull(last.prior.rec.Token)) =>
        \A n \in 1..Len(last.calls) :
            last.calls[n].fn \in UpdateCalls =>
                /\ last.calls[n].token # ""
                /\ last.calls[n].token = ValueString(last.prior.rec.Token)

\* The collaborator applied the update of the operation that just returned:
\* it answered the update call with a 2xx status.
RemoteUpdated ==
    \E n \in 1..Len(last.calls) :
        /\ last.calls[n].fn = "source.update"
        /\ last.resps[n].err = ""
        /\ last.resps[n].status >= 200 /\ last.resps[n].status < 300

\* C25: an Update of a source that ends with an error Diagnostic, and so
\* leaves persisted state at its prior value, has not modified the remote
\* resource.
C25_FailedUpdateLeavesRemoteAlone ==
    (kind = "source" /\ last.op = "Update" /\ HasError(last.diags)) =>
        /\ state = last.prior
        /\ ~RemoteUpdated

SourceSupplied ==
    {"Name", "ApiQuota", "BigqueryTableTtl", "BqTableId", "CustomEventMessageKeys",
     "DefaultIngestBackendEnabled", "Favorite", "Metrics", "Notifications",
     "SlackHookUrl", "WebhookNotificationUrl"}
EndpointSupplied ==
    {"Name", "Query", "Description", "CacheDurationSeconds", "EnableAuth",
     "MaxLimit", "ProactiveRequeryingSeconds", "Sandboxable", "SourceMapping"}

\* x came back as y: the same value, or for known JSON text the same document.
CameBack(x, y) ==
    \/ y = x
    \/ /\ x.ty = NormalizedType /\ x.state = "known" /\ y.state = "known"
       /\ JsonUnmarshalMap(x.s).ok /\ JsonUnmarshalMap(y.s).ok
       /\ ~JsonUnmarshalMap(x.s).target.nil
       /\ JsonUnmarshalMap(x.s).target = JsonUnmarshalMap(y.s).target

\* C26: with a collaborator that echoes the wire schema it was sent, the
\* mapper to the wire followed by the mapper from the wire leaves every value
\* the caller supplied in the Record unchanged, a null staying the same null,
\* for source and endpoint Records.
C26_MapperRoundTrip ==
    (/\ mapPc = "mapped" /\ mapOut.fn \in {"sourceRoundTrip", "endpointRoundTrip"}
     /\ ~HasError(mapOut.diags)) =>
        /\ ~mapOut.panic
        /\ \A f \in IF mapOut.fn = "sourceRoundTrip" THEN SourceSupplied
                     ELSE EndpointSupplied :
               ~IsUnknown(mapIn.data[f]) => CameBack(mapIn.data[f], mapOut.data[f])

====
